---- MODULE Spec2Model ----
(***************************************************************************)
(* Model of AdvancedSVGenerator (src/src/advanced_sv_main.py): the Python  *)
(* generator that emits the advanced PCIe controller, and the behaviour of *)
(* the SystemVerilog state machines it emits.                              *)
(*                                                                         *)
(* Text is modelled structurally: a fragment is a sequence of items, one   *)
(* per emitted declaration, block or case entry; a 32-bit word is a pair   *)
(* <<hi, lo>> of 16-bit halves; the text 32'hXXXXXXXX is a sequence of     *)
(* eight hex digits.                                                       *)
(***************************************************************************)
EXTENDS Integers, Sequences, FiniteSets, TLC

VARIABLES
    regs,               \* the register map handed to the generator
    variance_model,     \* [present |-> BOOLEAN, register_timing_jitter_ns |-> n]
    device_config,      \* DeviceSpecificLogic: device_type, device_class, ...
    perf_config,        \* PerformanceCounterConfig: [counter_width_bits |-> n]
    pc,                 \* per run: "ready" | "done"
    raised,             \* per run: the exception the run ended with, or NoError
    frags,              \* per run: what each sub-generator returned in the run
    ret,                \* per run: generate_advanced_systemverilog's return value
    header,             \* what a direct call of generate_module_header returned
    \* the emitted register write logic of one register of the map
    obs,                \* index in regs of the register whose block is run
    write_block,        \* the write logic emitted for it: << >> or one block
    reg_value,          \* <name>_reg
    access_pending,     \* <name>_access_pending
    timing_counter,     \* <name>_timing_counter
    reset_n,            \* level of the reset_n input
    bus,                \* bar_wr_en, bar_addr, bar_wr_data sampled at the last posedge clk
    since,              \* clock edges since the last accepted strobe edge, -1 if none
    commit_delay,       \* edges from the last strobe edge to its commit, -1 if none
    last_written,       \* the write data of the last accepted strobe since reset
    reset_from,         \* what the last reset interrupted: "none" | "idle" | "pending"
    \* the emitted interrupt logic
    interrupt_pending, interrupt_vector, interrupt_priority,
    msi_request, cfg_interrupt,     \* the continuously assigned outputs
    irq_in,             \* the inputs sampled at the last posedge clk out of reset
    irq_prev,           \* the interrupt state before the last posedge clk
    \* the emitted global register access timing block
    register_access_timer, register_write_pending,
    tim_in,             \* bar_wr_en and the block's state sampled at the last posedge clk
    wp_phase,           \* register_access_timer[3:0] at the edge that set write_pending
    wp_age,             \* clock edges since write_pending was set, -1 while it is low
    wp_window,          \* clock edges write_pending stayed high the last time, -1 if none
    tim_cycles,         \* clock edges the timing block has run since it started or was reset
    \* the Vivado toolchain wrapper
    search_env,         \* what the search strategies find on this machine
    find_pc, find_result, find_raised, find_tried,
    use_discovered_path, vivado_args, tcl_file,
    run_pc, run_raised, subprocess_calls,
    \* the emitted clock domain management logic
    clk_monitor_counter, mem_clk_monitor_counter, aux_clk_monitor_counter,
    clock_domain_status, mem_clk_valid, aux_clk_valid,
    clk_in,             \* the clock that rose last out of reset and its counter before
    clk_cycles,         \* clock edges of any domain since the logic started or was reset
    \* the emitted module advanced_clock_crossing
    sync_reg,           \* sync_reg[k] is bit k-1 of the synchronizer
    data_reg, valid_reg,
    dst_ready,          \* the consumer's input, driven at any time
    latch_age,          \* dst_clk edges since the source side latched a word
                        \* (counted up to SYNC_STAGES), -1 if none since reset
    cdc_was_reset,      \* reset_n has been asserted since power-up
    word_pending,       \* a word was latched and dst_valid has not been high since
    word_lost,          \* what happened to a word before dst_valid was high for
                        \* it: "none", "cleared" (valid_reg cleared) or "replaced"
    \* synthesis runs in parallel threads of one interpreter
    rng_state,          \* the state of the generator behind random.random()
    rng_users,          \* the runs that have advanced that generator
    par_pc,             \* par_pc[r]: the register run r declares next
    par_decl,           \* par_decl[r]: the declarations run r has emitted
    par_draws           \* par_draws[r][i]: what random.random() gave run r for
                        \* register i, 0 where it was not called

genVars ==
    <<regs, variance_model, device_config, perf_config, pc, raised, frags, ret,
      header>>

regVars ==
    <<obs, write_block, reg_value, access_pending, timing_counter, bus, since, commit_delay,
      last_written, reset_from>>

irqVars ==
    <<interrupt_pending, interrupt_vector, interrupt_priority, msi_request,
      cfg_interrupt, irq_in, irq_prev>>

timVars ==
    <<register_access_timer, register_write_pending, tim_in, wp_phase, wp_age,
      wp_window, tim_cycles>>

findVars == <<search_env, find_pc, find_result, find_raised, find_tried>>

runVars ==
    <<use_discovered_path, vivado_args, tcl_file, run_pc, run_raised,
      subprocess_calls>>

vivVars == <<findVars, runVars>>

clkVars ==
    <<clk_monitor_counter, mem_clk_monitor_counter, aux_clk_monitor_counter,
      clock_domain_status, mem_clk_valid, aux_clk_valid, clk_in, clk_cycles>>

cdcVars ==
    <<sync_reg, data_reg, valid_reg, dst_ready, latch_age, cdc_was_reset,
      word_pending, word_lost>>

parVars == <<rng_state, rng_users, par_pc, par_decl, par_draws>>

extVars == <<clkVars, cdcVars, parVars>>

vars == <<genVars, regVars, irqVars, reset_n, timVars, vivVars, extVars>>

-----------------------------------------------------------------------------
(* Bounds of the model *)

\* longest register map
MaxRegs == 2
\* clock edges the global timing block is run for without a reset
MaxTimerCycles == 40
\* clock edges, of the three domains together, the clock domain logic is run
\* for without a reset
MaxClockEdges == 6
\* random.random() is drawn from the grid {j / RandomSteps : j \in 0..RandomSteps-1}
RandomSteps == 3

\* the two synthesis runs that are compared with each other
Runs == {"first", "second"}

-----------------------------------------------------------------------------
(* 32-bit words and their hexadecimal text *)

RECURSIVE DigitsValue(_, _)
\* int(s, base) for a digit string whose value stays below 2^16
DigitsValue(ds, base) ==
    IF ds = <<>> THEN 0
    ELSE DigitsValue(SubSeq(ds, 1, Len(ds) - 1), base) * base + ds[Len(ds)]

\* int(reg["value"], 16) for a hex string of at most 8 digits
ParseHexWord(ds) ==
    LET n == Len(ds)
        hiDigits == IF n > 4 THEN SubSeq(ds, 1, n - 4) ELSE <<>>
        loDigits == IF n > 4 THEN SubSeq(ds, n - 3, n) ELSE ds
    IN  <<DigitsValue(hiDigits, 16), DigitsValue(loDigits, 16)>>

\* the four hex digits of a 16-bit half
Hex4(h) == <<h \div 4096, (h \div 256) % 16, (h \div 16) % 16, h % 16>>

\* f"{x:08X}"
FormatHex8(w) == Hex4(w[1]) \o Hex4(w[2])

\* the offset of a register: int(s, 16) for a string starting with "0x",
\* int(x) otherwise
ParseOffset(o) ==
    IF o.hex THEN DigitsValue(o.digits, 16) ELSE DigitsValue(o.digits, 10)

WordLeq(a, b) == a[1] < b[1] \/ (a[1] = b[1] /\ a[2] <= b[2])

\* |a - b| as a word
WordAbsDiff(a, b) ==
    LET big   == IF WordLeq(a, b) THEN b ELSE a
        small == IF WordLeq(a, b) THEN a ELSE b
        borrow == IF big[2] < small[2] THEN 1 ELSE 0
    IN  <<big[1] - small[1] - borrow, big[2] + 65536 * borrow - small[2]>>

-----------------------------------------------------------------------------
(* Inputs *)

\* variance_model = None
NoVariance == [present |-> FALSE, register_timing_jitter_ns |-> 0]
NoError == "None"
NotReturned == <<>>

ShadowStatusName == "pcileech_tlps128_cfgspace_shadow_status"

RegNames == {"ctrl", ShadowStatusName}

\* "0x2C" (a fixed status address), "0x30", and the integer 52 (= 0x34)
RegOffsets ==
    { [hex |-> TRUE, digits |-> <<2, 12>>],
      [hex |-> TRUE, digits |-> <<3, 0>>],
      [hex |-> FALSE, digits |-> <<5, 2>>] }

\* a read-write register reset to "C9", a read-only one reset to "FFFFFFFF"
RegValueModes ==
    { [value |-> <<12, 9>>, rw |-> "rw"],
      [value |-> <<15, 15, 15, 15, 15, 15, 15, 15>>, rw |-> "ro"] }

RegDescriptors ==
    { [name |-> n, offset |-> o, value |-> vm.value, rw |-> vm.rw] :
        n \in RegNames, o \in RegOffsets, vm \in RegValueModes }

RECURSIVE SeqsUpTo(_, _)
SeqsUpTo(S, n) ==
    IF n = 0 THEN {<<>>}
    ELSE LET shorter == SeqsUpTo(S, n - 1)
         IN  shorter \cup {Append(s, x) : s \in {t \in shorter : Len(t) = n - 1}, x \in S}

RegMaps == SeqsUpTo(RegDescriptors, MaxRegs)

\* jitter magnitudes in ns: none, the documented example, and the first one
\* whose delay of 256 cycles needs a ninth bit
JitterValues == {0, 25, 2560}

VarianceModels ==
    {NoVariance} \cup
    {[present |-> TRUE, register_timing_jitter_ns |-> j] : j \in JitterValues}

DeviceTypes ==
    {"GENERIC", "NETWORK_CONTROLLER", "STORAGE_CONTROLLER", "GRAPHICS_CONTROLLER"}

\* DeviceType.value
DeviceTypeValue(t) ==
    CASE t = "NETWORK_CONTROLLER" -> "network"
      [] t = "STORAGE_CONTROLLER" -> "storage"
      [] t = "GRAPHICS_CONTROLLER" -> "graphics"
      [] OTHER -> "generic"

DeviceClasses == {"consumer", "enterprise", "industrial", "automotive"}

PayloadSizes == {256, 512}

MsiVectorCounts == {1, 8}

CounterWidths == {32, 64}

\* DeviceSpecificLogic() with every field but device_type at its default
DefaultDeviceConfig(t) ==
    [device_type |-> t, device_class |-> "consumer", max_payload_size |-> 256,
     msi_vectors |-> 1]

DeviceConfigs ==
    [device_type : DeviceTypes, device_class : DeviceClasses,
     max_payload_size : PayloadSizes, msi_vectors : MsiVectorCounts]

DefaultPerfConfig == [counter_width_bits |-> 32]

PerfConfigs == [counter_width_bits : CounterWidths]

-----------------------------------------------------------------------------
(* Text: a fragment is a sequence of items; Text(s) is a run of literal text *)

Text(s) == [kind |-> "text", text |-> s]

\* str(n) for the counter widths in use
DecimalText(n) ==
    CASE n = 32 -> "32"
      [] n = 48 -> "48"
      [] n = 64 -> "64"
      [] OTHER -> "?"

-----------------------------------------------------------------------------
(* generate_module_header and _generate_device_specific_ports *)

\* the port block chosen by the if/elif chain on device_type
generate_device_specific_ports(cfg) ==
    CASE cfg.device_type = "NETWORK_CONTROLLER" -> "// Network controller ports"
      [] cfg.device_type = "STORAGE_CONTROLLER" -> "// Storage controller ports"
      [] cfg.device_type = "GRAPHICS_CONTROLLER" -> "// Graphics controller ports"
      [] OTHER -> "// Generic device ports"

\* The header is a plain string literal (no f prefix, no .format): every brace
\* expression in it is returned as written, and no port block is computed.
generate_module_header(cfg, perf) ==
    << [kind |-> "banner", name |-> "Device-specific optimizations",
        value |-> "{self.device_config.device_type.value}"],
       [kind |-> "param", name |-> "DEVICE_TYPE",
        value |-> "{self.device_config.device_type.value}"],
       [kind |-> "param", name |-> "DEVICE_CLASS",
        value |-> "{self.device_config.device_class.value}"],
       [kind |-> "param", name |-> "MAX_PAYLOAD_SIZE",
        value |-> "{self.device_config.max_payload_size}"],
       [kind |-> "param", name |-> "MSI_VECTORS",
        value |-> "{self.device_config.msi_vectors}"],
       [kind |-> "param", name |-> "COUNTER_WIDTH",
        value |-> "{self.perf_config.counter_width_bits}"],
       [kind |-> "ports", name |-> "common",
        value |-> "clk .. perf_counter_3"],
       [kind |-> "ports", name |-> "device_specific",
        value |-> "{self._generate_device_specific_ports()}"] >>

-----------------------------------------------------------------------------
(* generate_register_logic *)

\* variance_factor = 1.0 + (random.random() - 0.5) * 0.01 with
\* random.random() = j / RandomSteps, as the fraction Num / Den
VarianceFactorDen == 200 * RandomSteps
VarianceFactorNum(j) == 200 * RandomSteps + 2 * j - RandomSteps

\* int(w * num / den) for a 32-bit word w, unmasked: <<carry, hi, lo>>
MulDiv(w, num, den) ==
    LET hiN == w[1] * num
        qh  == hiN \div den
        rh  == hiN % den
        ql  == (rh * 65536 + w[2] * num) \div den
        top == qh + ql \div 65536
    IN  <<top \div 65536, top % 65536, ql % 65536>>

\* a variance of +-5% instead of +-0.5%
VariedValueWide(initial, j) ==
    LET q == MulDiv(initial, VarianceFactorDen + 10 * (2 * j - RandomSteps),
                    VarianceFactorDen)
    IN  <<q[2], q[3]>>

\* varied_value = int(initial_value * variance_factor) & 0xFFFFFFFF
VariedValue(initial, j) ==
    LET q == MulDiv(initial, VarianceFactorNum(j), VarianceFactorDen)
    IN  <<q[2], q[3]>>

\* the variance branch taken whether or not a variance model is given
UsesRandomAlways(reg, vm) == reg.name # ShadowStatusName

\* the elif branch that calls random.random(): a variance model is given and
\* the register is not the shadow-status register
UsesRandom(reg, vm) == reg.name # ShadowStatusName /\ vm.present

\* the constant a register is declared with: 1 for the shadow-status register,
\* the varied value under a variance model, the configured value otherwise
DeclaredInit(reg, vm, j) ==
    IF reg.name = ShadowStatusName THEN <<0, 1>>
    ELSE IF UsesRandom(reg, vm) THEN VariedValue(ParseHexWord(reg.value), j)
    ELSE ParseHexWord(reg.value)

\* the delay without the clamp to one cycle
base_delay_unclamped(vm) == vm.register_timing_jitter_ns \div 10

\* base_delay = max(1, int(timing_variance / 10))
base_delay(vm) ==
    LET d == vm.register_timing_jitter_ns \div 10
    IN  IF d > 1 THEN d ELSE 1

RegisterDeclarations(reg, vm, j) ==
    << [kind |-> "decl", signal |-> <<reg.name, "_reg">>,
        init |-> FormatHex8(DeclaredInit(reg, vm, j))],
       [kind |-> "decl", signal |-> <<reg.name, "_access_pending">>,
        init |-> <<0>>],
       [kind |-> "decl", signal |-> <<reg.name, "_timing_counter">>,
        init |-> <<0>>] >>

\* the block with the variance-aware timing emitted in every case
RegisterWriteLogicAlwaysDelayed(reg, vm) ==
    IF reg.rw \in {"rw", "wo"}
    THEN << [kind |-> "write", name |-> reg.name,
             offset |-> FormatHex8(<<0, ParseOffset(reg.offset)>>),
             reset |-> FormatHex8(ParseHexWord(reg.value)),
             delayed |-> TRUE,
             delay |-> base_delay(vm)] >>
    ELSE <<>>

\* a block emitted whatever the access mode
RegisterWriteLogicAllModes(reg, vm) ==
    << [kind |-> "write", name |-> reg.name,
        offset |-> FormatHex8(<<0, ParseOffset(reg.offset)>>),
        reset |-> FormatHex8(ParseHexWord(reg.value)),
        delayed |-> vm.present,
        delay |-> IF vm.present THEN base_delay(vm) ELSE 0] >>

\* the always_ff block of one rw / wo register; none for any other mode
RegisterWriteLogic(reg, vm) ==
    IF reg.rw \in {"rw", "wo"}
    THEN << [kind |-> "write", name |-> reg.name,
             offset |-> FormatHex8(<<0, ParseOffset(reg.offset)>>),
             reset |-> FormatHex8(ParseHexWord(reg.value)),
             delayed |-> vm.present,
             delay |-> IF vm.present THEN base_delay(vm) ELSE 0] >>
    ELSE <<>>

RECURSIVE FlatMap(_, _, _)
\* the concatenation of Op(i) for i = from .. to
FlatMap(Op(_), from, to) ==
    IF from > to THEN <<>> ELSE Op(from) \o FlatMap(Op, from + 1, to)

\* draw[i] is the grid index random.random() returns for register i, for the
\* registers the call is made for
generate_register_logic(rs, vm, draw) ==
    LET Drawn(i) == IF i \in DOMAIN draw THEN draw[i] ELSE 0
        Decls(i) == RegisterDeclarations(rs[i], vm, Drawn(i))
        Writes(i) == RegisterWriteLogic(rs[i], vm)
    IN  << [kind |-> "decl", signal |-> <<"register_access_timer">>, init |-> <<0>>],
           [kind |-> "decl", signal |-> <<"register_write_pending">>, init |-> <<0>>] >>
        \o FlatMap(Decls, 1, Len(rs))
        \o << [kind |-> "global_timing"] >>
        \o FlatMap(Writes, 1, Len(rs))

-----------------------------------------------------------------------------
(* generate_read_logic *)

\* the twelve fixed status entries, in emission order
FixedReadEntries ==
    << [kind |-> "case", addr |-> <<0,0,0,0,0,0,0,0>>, src |-> <<"current_power_state">>],
       [kind |-> "case", addr |-> <<0,0,0,0,0,0,0,4>>, src |-> <<"current_link_state">>],
       [kind |-> "case", addr |-> <<0,0,0,0,0,0,0,8>>, src |-> <<"error_status">>],
       [kind |-> "case", addr |-> <<0,0,0,0,0,0,0,12>>, src |-> <<"error_code">>],
       [kind |-> "case", addr |-> <<0,0,0,0,0,0,1,0>>, src |-> <<"perf_counter_0">>],
       [kind |-> "case", addr |-> <<0,0,0,0,0,0,1,4>>, src |-> <<"perf_counter_1">>],
       [kind |-> "case", addr |-> <<0,0,0,0,0,0,1,8>>, src |-> <<"perf_counter_2">>],
       [kind |-> "case", addr |-> <<0,0,0,0,0,0,1,12>>, src |-> <<"perf_counter_3">>],
       [kind |-> "case", addr |-> <<0,0,0,0,0,0,2,0>>, src |-> <<"32'hADVANCED">>],
       [kind |-> "case", addr |-> <<0,0,0,0,0,0,2,4>>, src |-> <<"DEVICE_TYPE[15:0]">>],
       [kind |-> "case", addr |-> <<0,0,0,0,0,0,2,8>>, src |-> <<"performance_grade">>],
       [kind |-> "case", addr |-> <<0,0,0,0,0,0,2,12>>, src |-> <<"anomaly_flags">>] >>

RegisterReadEntry(reg) ==
    << [kind |-> "case",
        addr |-> FormatHex8(<<0, ParseOffset(reg.offset)>>),
        src  |-> <<reg.name, "_reg">>] >>

\* a table that lists only the registers with a write path
generate_read_logic_writable_only(rs) ==
    LET Entry(i) == IF rs[i].rw \in {"rw", "wo"} THEN RegisterReadEntry(rs[i]) ELSE <<>>
    IN  FixedReadEntries \o FlatMap(Entry, 1, Len(rs)) \o << [kind |-> "default"] >>

\* a table with the register entries ahead of the fixed entries
generate_read_logic_registers_first(rs) ==
    LET Entry(i) == RegisterReadEntry(rs[i])
    IN  FlatMap(Entry, 1, Len(rs)) \o FixedReadEntries \o << [kind |-> "default"] >>

generate_read_logic(rs) ==
    LET Entry(i) == RegisterReadEntry(rs[i])
    IN  FixedReadEntries \o FlatMap(Entry, 1, Len(rs)) \o << [kind |-> "default"] >>

-----------------------------------------------------------------------------
(* The fragments that take no register map *)

generate_interrupt_logic == << Text("// Advanced Interrupt Handling") >>

generate_clock_domain_logic(vm) == << Text("// Clock Domain Management") >>

\* the three external generators: opaque text
generate_complete_power_management == << Text("power_management") >>
generate_complete_error_handling == << Text("error_handling") >>
generate_complete_performance_counters == << Text("performance_counters") >>

-----------------------------------------------------------------------------
(* generate_advanced_systemverilog *)

\* what the eight generator calls return; the code drops every one of them
GeneratedFragments(rs, vm, cfg, perf, draw) ==
    [ module_header        |-> generate_module_header(cfg, perf),
      power_management     |-> generate_complete_power_management,
      error_handling       |-> generate_complete_error_handling,
      performance_counters |-> generate_complete_performance_counters,
      clock_domains        |-> generate_clock_domain_logic(vm),
      interrupt_handling   |-> generate_interrupt_logic,
      register_logic       |-> generate_register_logic(rs, vm, draw),
      read_logic           |-> generate_read_logic(rs) ]

ClockCrossingModule == Text("module advanced_clock_crossing")

\* module_content: a plain string literal, returned as written
ModuleContent(fr) ==
    << Text("{module_header}"), Text("{power_management}"),
       Text("{error_handling}"), Text("{performance_counters}"),
       Text("{clock_domains}"), Text("{interrupt_handling}"),
       Text("{register_logic}"), Text("{read_logic}"),
       Text("endmodule"), ClockCrossingModule >>

\* the random.random() results of one run: one per register that draws
RandomDraws(rs, vm) ==
    [{i \in 1..Len(rs) : UsesRandom(rs[i], vm)} -> 0..(RandomSteps - 1)]

\* one call of generate_advanced_systemverilog(regs, variance_model)
generate_advanced_systemverilog(r) ==
    /\ pc[r] = "ready"
    /\ \E draw \in RandomDraws(regs, variance_model) :
         LET fr == GeneratedFragments(regs, variance_model, device_config,
                                      perf_config, draw)
         IN  /\ frags' = [frags EXCEPT ![r] = fr]
             /\ ret' = [ret EXCEPT ![r] = ModuleContent(fr)]
    /\ raised' = [raised EXCEPT ![r] = NoError]
    /\ pc' = [pc EXCEPT ![r] = "done"]
    /\ UNCHANGED <<regs, variance_model, device_config, perf_config, header>>
    /\ UNCHANGED <<regVars, irqVars, reset_n, timVars, vivVars, extVars>>

\* a direct call of generate_module_header()
call_generate_module_header ==
    /\ header = NotReturned
    /\ header' = generate_module_header(device_config, perf_config)
    /\ UNCHANGED <<regs, variance_model, device_config, perf_config, pc, raised,
                   frags, ret>>
    /\ UNCHANGED <<regVars, irqVars, reset_n, timVars, vivVars, extVars>>

\* find_vivado_installation() returned None
NoInstallation == [found |-> FALSE]

NoException == [type |-> "None", mentions |-> {}]

\* the toolchain wrapper is not called
ToolchainIdle ==
    /\ search_env = [which |-> "None", common |-> "absent", pattern |-> "absent",
                     environ |-> "unset"]
    /\ find_pc = "ready"
    /\ find_result = NoInstallation
    /\ find_raised = NoException
    /\ find_tried = <<>>
    /\ use_discovered_path = TRUE
    /\ vivado_args = <<>>
    /\ tcl_file = "None"
    /\ run_pc = "ready"
    /\ run_raised = NoException
    /\ subprocess_calls = <<>>

\* the declared initial values of the global timing signals
TimerIdle ==
    /\ register_access_timer = <<0, 0>>
    /\ register_write_pending = FALSE
    /\ tim_in = [valid |-> FALSE, bar_wr_en |-> FALSE, was_pending |-> FALSE,
                 timer |-> <<0, 0>>]
    /\ wp_phase = 0
    /\ wp_age = -1
    /\ wp_window = -1
    /\ tim_cycles = 0

\* the declared initial values of the clock domain signals
ClockIdle ==
    /\ clk_monitor_counter = 0
    /\ mem_clk_monitor_counter = 0
    /\ aux_clk_monitor_counter = 0
    /\ clock_domain_status = <<TRUE, TRUE, TRUE>>
    /\ mem_clk_valid = TRUE
    /\ aux_clk_valid = TRUE
    /\ clk_in = [valid |-> FALSE, domain |-> "clk", before |-> 0]
    /\ clk_cycles = 0

\* parameter SYNC_STAGES = 3 of advanced_clock_crossing
SYNC_STAGES == 3

\* the crossing module held in reset
CrossingIdle ==
    /\ sync_reg = [k \in 1..SYNC_STAGES |-> FALSE]
    /\ data_reg = <<0, 0>>
    /\ valid_reg = FALSE
    /\ dst_ready = FALSE
    /\ latch_age = -1
    /\ cdc_was_reset = FALSE
    /\ word_pending = FALSE
    /\ word_lost = "none"

\* no parallel synthesis run in progress
ParallelIdle ==
    /\ rng_state = 0
    /\ rng_users = {}
    /\ par_pc = [r \in Runs |-> 1]
    /\ par_decl = [r \in Runs |-> <<>>]
    /\ par_draws = [r \in Runs |-> <<>>]

\* no synthesis run in progress
GeneratorIdle ==
    /\ pc = [r \in Runs |-> "ready"]
    /\ raised = [r \in Runs |-> NoError]
    /\ frags = [r \in Runs |-> NotReturned]
    /\ ret = [r \in Runs |-> NotReturned]
    /\ header = NotReturned

\* the emitted hardware is not run
HardwareIdle ==
    /\ obs = 0
    /\ write_block = <<>>
    /\ reg_value = <<0, 0>>
    /\ access_pending = FALSE
    /\ timing_counter = 0
    /\ reset_n = TRUE
    /\ bus = [wr_en |-> FALSE, addr |-> 0, data |-> <<0, 0>>]
    /\ since = -1
    /\ commit_delay = -1
    /\ last_written = [valid |-> FALSE, data |-> <<0, 0>>]
    /\ reset_from = "none"
    /\ interrupt_pending = FALSE
    /\ interrupt_vector = 0
    /\ interrupt_priority = 0
    /\ msi_request = FALSE
    /\ cfg_interrupt = FALSE
    /\ irq_in = [valid |-> FALSE, uncorrectable_error |-> FALSE,
                 correctable_error |-> FALSE, bar_wr_en |-> FALSE,
                 bar_rd_en |-> FALSE, msi_ack |-> FALSE,
                 cfg_interrupt_msi_enable |-> FALSE]
    /\ irq_prev = [pending |-> FALSE, vector |-> 0, priority |-> 0]

-----------------------------------------------------------------------------
(* Spec: one synthesis run over every register map, variance model and      *)
(* device type                                                              *)

Init ==
    /\ regs \in RegMaps
    /\ variance_model \in VarianceModels
    /\ device_config \in {DefaultDeviceConfig(t) : t \in DeviceTypes}
    /\ perf_config = DefaultPerfConfig
    /\ GeneratorIdle
    /\ ClockIdle
    /\ CrossingIdle
    /\ ParallelIdle
    /\ ToolchainIdle
    /\ TimerIdle
    /\ HardwareIdle

Next == generate_advanced_systemverilog("first")

Spec == Init /\ [][Next]_vars

-----------------------------------------------------------------------------
(* SpecIdem: two synthesis runs on identical inputs, no variance model      *)

InitIdem ==
    /\ regs \in RegMaps
    /\ variance_model = NoVariance
    /\ device_config \in {DefaultDeviceConfig(t) : t \in DeviceTypes}
    /\ perf_config = DefaultPerfConfig
    /\ GeneratorIdle
    /\ ClockIdle
    /\ CrossingIdle
    /\ ParallelIdle
    /\ ToolchainIdle
    /\ TimerIdle
    /\ HardwareIdle

NextIdem == \E r \in Runs : generate_advanced_systemverilog(r)

SpecIdem == InitIdem /\ [][NextIdem]_vars

-----------------------------------------------------------------------------
(* SpecHeader: generate_module_header over every device and counter         *)
(* configuration                                                            *)

InitHeader ==
    /\ regs = <<>>
    /\ variance_model = NoVariance
    /\ device_config \in DeviceConfigs
    /\ perf_config \in PerfConfigs
    /\ GeneratorIdle
    /\ ClockIdle
    /\ CrossingIdle
    /\ ParallelIdle
    /\ ToolchainIdle
    /\ TimerIdle
    /\ HardwareIdle

NextHeader == call_generate_module_header

SpecHeader == InitHeader /\ [][NextHeader]_vars

-----------------------------------------------------------------------------
(* The register write logic emitted by generate_register_logic, run as     *)
(* hardware: the always_ff block of one register of the map                *)

\* the block with a strobe branch that always opens a PENDING phase
RegisterBlockStepDeferred(block, st, b, rn) ==
    IF ~rn
    THEN [reg |-> ParseHexWord(block.reset), pending |-> FALSE, counter |-> 0]
    ELSE IF b.wr_en /\ FormatHex8(<<0, b.addr>>) = block.offset
    THEN [st EXCEPT !.pending = TRUE, !.counter = block.delay % 256]
    ELSE IF st.pending
    THEN IF st.counter > 0
         THEN [st EXCEPT !.counter = st.counter - 1]
         ELSE [st EXCEPT !.reg = b.data, !.pending = FALSE]
    ELSE st

\* the block with a reset branch that restores the value only
RegisterBlockStepResetKeepsPending(block, st, b, rn) ==
    IF ~rn
    THEN [st EXCEPT !.reg = ParseHexWord(block.reset)]
    ELSE IF b.wr_en /\ FormatHex8(<<0, b.addr>>) = block.offset
    THEN IF block.delayed
         THEN [st EXCEPT !.pending = TRUE, !.counter = block.delay % 256]
         ELSE [st EXCEPT !.reg = b.data]
    ELSE IF block.delayed /\ st.pending
    THEN IF st.counter > 0
         THEN [st EXCEPT !.counter = st.counter - 1]
         ELSE [st EXCEPT !.reg = b.data, !.pending = FALSE]
    ELSE st

\* the block with the PENDING branch tested ahead of the strobe, so that a
\* strobe during PENDING does not restart the counter
RegisterBlockStepNoRestart(block, st, b, rn) ==
    IF ~rn
    THEN [reg |-> ParseHexWord(block.reset), pending |-> FALSE, counter |-> 0]
    ELSE IF block.delayed /\ st.pending
    THEN IF st.counter > 0
         THEN [st EXCEPT !.counter = st.counter - 1]
         ELSE [st EXCEPT !.reg = b.data, !.pending = FALSE]
    ELSE IF b.wr_en /\ FormatHex8(<<0, b.addr>>) = block.offset
    THEN IF block.delayed
         THEN [st EXCEPT !.pending = TRUE, !.counter = block.delay % 256]
         ELSE [st EXCEPT !.reg = b.data]
    ELSE st

\* one evaluation of the block at posedge clk or negedge reset_n;
\* st = [reg, pending, counter], b = the bus inputs, rn = reset_n
RegisterBlockStep(block, st, b, rn) ==
    IF ~rn
    THEN [reg |-> ParseHexWord(block.reset), pending |-> FALSE, counter |-> 0]
    ELSE IF b.wr_en /\ FormatHex8(<<0, b.addr>>) = block.offset
    THEN IF block.delayed
         THEN [st EXCEPT !.pending = TRUE, !.counter = block.delay % 256]
         ELSE [st EXCEPT !.reg = b.data]
    ELSE IF block.delayed /\ st.pending
    THEN IF st.counter > 0
         THEN [st EXCEPT !.counter = st.counter - 1]
         ELSE [st EXCEPT !.reg = b.data, !.pending = FALSE]
    ELSE st

\* the source the always_comb read logic selects for an address: the first
\* matching case entry, the default branch when there is none
ReadSource(table, addr) ==
    LET text == FormatHex8(<<0, addr>>)
        hits == {i \in 1..Len(table) : table[i].kind = "case" /\ table[i].addr = text}
    IN  IF hits = {} THEN <<"32'h0">>
        ELSE table[CHOOSE i \in hits : \A k \in hits : i <= k].src

ObservedState ==
    [reg |-> reg_value, pending |-> access_pending, counter |-> timing_counter]

\* the observed block sees a write strobe at its own address, out of reset
StrobeAccepted(b, rn) ==
    /\ rn
    /\ write_block # <<>>
    /\ b.wr_en
    /\ FormatHex8(<<0, b.addr>>) = write_block[1].offset

\* offsets of the registers of a module that is run: "0x2C" (a fixed status
\* address) and "0x30"
HwRegOffsets ==
    { [hex |-> TRUE, digits |-> <<2, 12>>],
      [hex |-> TRUE, digits |-> <<3, 0>>] }

\* addresses driven on bar_addr: the register offsets and one unmapped address
BusAddresses == {ParseOffset(o) : o \in HwRegOffsets} \cup {56}

\* values driven on bar_wr_data: 0xDEADBEEF and 0x00000000
BusData == {<<57005, 48879>>, <<0, 0>>}

BusInputs ==
    {[wr_en |-> TRUE, addr |-> a, data |-> d] : a \in BusAddresses, d \in BusData}
    \cup {[wr_en |-> FALSE, addr |-> 0, data |-> d] : d \in BusData}

\* the observed block and its history after one evaluation
RegisterEvaluate(b, rn) ==
    LET st == IF write_block = <<>> THEN ObservedState
              ELSE RegisterBlockStep(write_block[1], ObservedState, b, rn)
        strobe == StrobeAccepted(b, rn)
        inFlight == rn /\ ~strobe /\ access_pending /\ write_block # <<>>
        nextSince == IF ~rn THEN -1
                     ELSE IF strobe THEN 0
                     ELSE IF inFlight THEN since + 1
                     ELSE since
        commits == \/ strobe /\ ~write_block[1].delayed
                   \/ inFlight /\ write_block[1].delayed /\ timing_counter = 0
    IN  /\ reg_value' = st.reg
        /\ access_pending' = st.pending
        /\ timing_counter' = st.counter
        /\ since' = nextSince
        /\ commit_delay' = IF ~rn THEN -1
                           ELSE IF commits THEN nextSince
                           ELSE IF strobe THEN -1
                           ELSE commit_delay
        /\ last_written' = IF ~rn THEN [valid |-> FALSE, data |-> <<0, 0>>]
                           ELSE IF strobe THEN [valid |-> TRUE, data |-> b.data]
                           ELSE last_written
        /\ reset_from' = IF rn \/ ~reset_n THEN reset_from
                         ELSE IF access_pending THEN "pending"
                         ELSE "idle"

\* posedge clk with the bus inputs b
register_posedge_clk ==
    \E b \in BusInputs :
        /\ RegisterEvaluate(b, reset_n)
        /\ bus' = b
        /\ UNCHANGED <<obs, write_block, reset_n, genVars, irqVars, timVars, vivVars, extVars>>

\* negedge reset_n: the block is evaluated with reset asserted
register_negedge_reset_n ==
    /\ reset_n
    /\ reset_n' = FALSE
    /\ RegisterEvaluate(bus, FALSE)
    /\ UNCHANGED <<obs, write_block, bus, genVars, irqVars, timVars, vivVars, extVars>>

\* reset_n rises: no block is sensitive to it
register_release_reset_n ==
    /\ ~reset_n
    /\ reset_n' = TRUE
    /\ UNCHANGED <<regVars, genVars, irqVars, timVars, vivVars, extVars>>

\* the register maps a module is run for: every name declared once
HwRegValueModes ==
    { [value |-> <<12, 9>>, rw |-> "rw"],
      [value |-> <<12, 9>>, rw |-> "wo"],
      [value |-> <<15, 15, 15, 15, 15, 15, 15, 15>>, rw |-> "ro"] }

HwRegDescriptors ==
    { [name |-> n, offset |-> o, value |-> vm.value, rw |-> vm.rw] :
        n \in RegNames, o \in HwRegOffsets, vm \in HwRegValueModes }

HwRegMaps ==
    {m \in SeqsUpTo(HwRegDescriptors, MaxRegs) :
        /\ Len(m) >= 1
        /\ \A i, j \in 1..Len(m) : m[i].name = m[j].name => i = j}

InitReg ==
    /\ regs \in HwRegMaps
    /\ variance_model \in VarianceModels
    /\ device_config = DefaultDeviceConfig("GENERIC")
    /\ perf_config = DefaultPerfConfig
    /\ GeneratorIdle
    /\ ClockIdle
    /\ CrossingIdle
    /\ ParallelIdle
    /\ ToolchainIdle
    /\ TimerIdle
    /\ obs \in 1..Len(regs)
    /\ write_block = RegisterWriteLogic(regs[obs], variance_model)
    /\ \E j \in 0..(RandomSteps - 1) :
          reg_value = DeclaredInit(regs[obs], variance_model, j)
    /\ access_pending = FALSE
    /\ timing_counter = 0
    /\ reset_n = TRUE
    /\ bus = [wr_en |-> FALSE, addr |-> 0, data |-> <<0, 0>>]
    /\ since = -1
    /\ commit_delay = -1
    /\ last_written = [valid |-> FALSE, data |-> <<0, 0>>]
    /\ reset_from = "none"
    /\ interrupt_pending = FALSE
    /\ interrupt_vector = 0
    /\ interrupt_priority = 0
    /\ msi_request = FALSE
    /\ cfg_interrupt = FALSE
    /\ irq_in = [valid |-> FALSE, uncorrectable_error |-> FALSE,
                 correctable_error |-> FALSE, bar_wr_en |-> FALSE,
                 bar_rd_en |-> FALSE, msi_ack |-> FALSE,
                 cfg_interrupt_msi_enable |-> FALSE]
    /\ irq_prev = [pending |-> FALSE, vector |-> 0, priority |-> 0]

NextReg ==
    \/ register_posedge_clk
    \/ register_negedge_reset_n
    \/ register_release_reset_n

SpecReg == InitReg /\ [][NextReg]_vars

\* SpecRegLive: one register with a variance model, on a clock that never
\* stops
InitRegLive ==
    /\ InitReg
    /\ variance_model.present
    /\ Len(regs) = 1

SpecRegLive == InitRegLive /\ [][NextReg]_vars /\ WF_vars(register_posedge_clk)

-----------------------------------------------------------------------------
(* The interrupt logic emitted by generate_interrupt_logic, run as hardware *)

\* the if / else-if chain in the priority order of the code, swapped so that
\* the correctable error is tested first
InterruptNextCorrectableFirst(st, in) ==
    IF in.correctable_error
    THEN [pending |-> TRUE, vector |-> 1, priority |-> 8]
    ELSE IF in.uncorrectable_error
    THEN [pending |-> TRUE, vector |-> 2, priority |-> 15]
    ELSE IF in.bar_wr_en \/ in.bar_rd_en
    THEN [pending |-> TRUE, vector |-> 0, priority |-> 4]
    ELSE IF in.msi_ack
    THEN [pending |-> FALSE, vector |-> 0, priority |-> 0]
    ELSE st

\* the chain with the acknowledgment tested before the triggers
InterruptNextAckFirst(st, in) ==
    IF in.msi_ack
    THEN [pending |-> FALSE, vector |-> 0, priority |-> 0]
    ELSE IF in.uncorrectable_error
    THEN [pending |-> TRUE, vector |-> 2, priority |-> 15]
    ELSE IF in.correctable_error
    THEN [pending |-> TRUE, vector |-> 1, priority |-> 8]
    ELSE IF in.bar_wr_en \/ in.bar_rd_en
    THEN [pending |-> TRUE, vector |-> 0, priority |-> 4]
    ELSE st

\* the chain with an acknowledgment that clears the pending flag only
InterruptNextAckKeepsVector(st, in) ==
    IF in.uncorrectable_error
    THEN [pending |-> TRUE, vector |-> 2, priority |-> 15]
    ELSE IF in.correctable_error
    THEN [pending |-> TRUE, vector |-> 1, priority |-> 8]
    ELSE IF in.bar_wr_en \/ in.bar_rd_en
    THEN [pending |-> TRUE, vector |-> 0, priority |-> 4]
    ELSE IF in.msi_ack
    THEN [st EXCEPT !.pending = FALSE]
    ELSE st

\* the chain with a pending interrupt held against lower-priority triggers
InterruptNextKeepsHigher(st, in) ==
    LET trig == IF in.uncorrectable_error
                THEN [pending |-> TRUE, vector |-> 2, priority |-> 15]
                ELSE IF in.correctable_error
                THEN [pending |-> TRUE, vector |-> 1, priority |-> 8]
                ELSE [pending |-> TRUE, vector |-> 0, priority |-> 4]
        any == in.uncorrectable_error \/ in.correctable_error
                  \/ in.bar_wr_en \/ in.bar_rd_en
    IN  IF any
        THEN IF st.pending /\ st.priority > trig.priority THEN st ELSE trig
        ELSE IF in.msi_ack
        THEN [pending |-> FALSE, vector |-> 0, priority |-> 0]
        ELSE st

\* the else branch of the always_ff block: reset_n is high
InterruptNext(st, in) ==
    IF in.uncorrectable_error
    THEN [pending |-> TRUE, vector |-> 2, priority |-> 15]
    ELSE IF in.correctable_error
    THEN [pending |-> TRUE, vector |-> 1, priority |-> 8]
    ELSE IF in.bar_wr_en \/ in.bar_rd_en
    THEN [pending |-> TRUE, vector |-> 0, priority |-> 4]
    ELSE IF in.msi_ack
    THEN [pending |-> FALSE, vector |-> 0, priority |-> 0]
    ELSE st

InterruptState ==
    [pending |-> interrupt_pending, vector |-> interrupt_vector,
     priority |-> interrupt_priority]

InterruptReset == [pending |-> FALSE, vector |-> 0, priority |-> 0]

InterruptInputs ==
    [valid : {TRUE}, uncorrectable_error : BOOLEAN, correctable_error : BOOLEAN,
     bar_wr_en : BOOLEAN, bar_rd_en : BOOLEAN, msi_ack : BOOLEAN,
     cfg_interrupt_msi_enable : BOOLEAN]

\* the legacy output assigned without the test of cfg_interrupt_msi_enable
InterruptOutputsLegacyUngated(pending, msi_enable) ==
    [msi_request |-> pending /\ msi_enable, cfg_interrupt |-> pending]

\* assign msi_request = interrupt_pending && cfg_interrupt_msi_enable;
\* assign cfg_interrupt = interrupt_pending && !cfg_interrupt_msi_enable;
InterruptOutputs(pending, msi_enable) ==
    [msi_request |-> pending /\ msi_enable,
     cfg_interrupt |-> pending /\ ~msi_enable]

\* the registers take the state st; the outputs follow them and the level of
\* cfg_interrupt_msi_enable
SetInterruptState(st, msi_enable) ==
    /\ interrupt_pending' = st.pending
    /\ interrupt_vector' = st.vector
    /\ interrupt_priority' = st.priority
    /\ msi_request' = InterruptOutputs(st.pending, msi_enable).msi_request
    /\ cfg_interrupt' = InterruptOutputs(st.pending, msi_enable).cfg_interrupt

\* posedge clk with the inputs in
interrupt_posedge_clk ==
    \E in \in InterruptInputs :
        /\ irq_prev' = InterruptState
        /\ IF reset_n
           THEN /\ SetInterruptState(InterruptNext(InterruptState, in),
                                     in.cfg_interrupt_msi_enable)
                /\ irq_in' = in
           ELSE /\ SetInterruptState(InterruptReset, in.cfg_interrupt_msi_enable)
                /\ irq_in' = [in EXCEPT !.valid = FALSE]
        /\ UNCHANGED <<reset_n, genVars, regVars, timVars, vivVars, extVars>>

\* negedge reset_n: the reset branch runs at once
interrupt_negedge_reset_n ==
    /\ reset_n
    /\ reset_n' = FALSE
    /\ irq_prev' = InterruptState
    /\ SetInterruptState(InterruptReset, irq_in.cfg_interrupt_msi_enable)
    /\ irq_in' = [irq_in EXCEPT !.valid = FALSE]
    /\ UNCHANGED <<genVars, regVars, timVars, vivVars, extVars>>

interrupt_release_reset_n ==
    /\ ~reset_n
    /\ reset_n' = TRUE
    /\ UNCHANGED <<irqVars, genVars, regVars, timVars, vivVars, extVars>>

InitIrq ==
    /\ regs = <<>>
    /\ variance_model = NoVariance
    /\ device_config = DefaultDeviceConfig("GENERIC")
    /\ perf_config = DefaultPerfConfig
    /\ GeneratorIdle
    /\ ClockIdle
    /\ CrossingIdle
    /\ ParallelIdle
    /\ ToolchainIdle
    /\ TimerIdle
    /\ HardwareIdle

NextIrq ==
    \/ interrupt_posedge_clk
    \/ interrupt_negedge_reset_n
    \/ interrupt_release_reset_n

SpecIrq == InitIrq /\ [][NextIrq]_vars

-----------------------------------------------------------------------------
(* The global register access timing block emitted by                      *)
(* generate_register_logic, run as hardware                                 *)

\* w + 1 for a 32-bit word w, wrapping at 2^32
WordInc(w) ==
    IF w[2] < 65535 THEN <<w[1], w[2] + 1>>
    ELSE <<(w[1] + 1) % 65536, 0>>

\* the block with the pending flag cleared when the timer's low bits are 0
GlobalTimingStepClearAtZero(st, wr_en, rn) ==
    IF ~rn
    THEN [timer |-> <<0, 0>>, pending |-> FALSE]
    ELSE [timer |-> WordInc(st.timer),
          pending |-> IF wr_en /\ ~st.pending THEN TRUE
                      ELSE IF st.pending /\ st.timer[2] % 16 = 0 THEN FALSE
                      ELSE st.pending]

\* the block with a timer that stops at 32'hFFFFFFFF
GlobalTimingStepSaturating(st, wr_en, rn) ==
    IF ~rn
    THEN [timer |-> <<0, 0>>, pending |-> FALSE]
    ELSE [timer |-> IF st.timer = <<65535, 65535>> THEN st.timer
                    ELSE WordInc(st.timer),
          pending |-> IF wr_en /\ ~st.pending THEN TRUE
                      ELSE IF st.pending /\ st.timer[2] % 16 = 15 THEN FALSE
                      ELSE st.pending]

\* one evaluation of the block; st = [timer, pending], the right-hand sides
\* read the values before the edge
GlobalTimingStep(st, wr_en, rn) ==
    IF ~rn
    THEN [timer |-> <<0, 0>>, pending |-> FALSE]
    ELSE [timer |-> WordInc(st.timer),
          pending |-> IF wr_en /\ ~st.pending THEN TRUE
                      ELSE IF st.pending /\ st.timer[2] % 16 = 15 THEN FALSE
                      ELSE st.pending]

GlobalTimingState ==
    [timer |-> register_access_timer, pending |-> register_write_pending]

\* the block and its history after one evaluation
GlobalTimingEvaluate(wr_en, rn) ==
    LET st == GlobalTimingStep(GlobalTimingState, wr_en, rn)
        sets == rn /\ ~register_write_pending /\ st.pending
        clears == rn /\ register_write_pending /\ ~st.pending
    IN  /\ register_access_timer' = st.timer
        /\ register_write_pending' = st.pending
        /\ wp_phase' = IF sets THEN register_access_timer[2] % 16
                       ELSE IF ~rn THEN 0
                       ELSE wp_phase
        /\ wp_age' = IF sets THEN 0
                     ELSE IF ~st.pending THEN -1
                     ELSE wp_age + 1
        /\ wp_window' = IF clears THEN wp_age + 1
                        ELSE IF sets \/ ~rn THEN -1
                        ELSE wp_window
        /\ tim_cycles' = IF rn THEN tim_cycles + 1 ELSE 0

\* posedge clk with bar_wr_en sampled
timer_posedge_clk ==
    /\ tim_cycles < MaxTimerCycles
    /\ \E wr_en \in BOOLEAN :
          /\ GlobalTimingEvaluate(wr_en, reset_n)
          /\ tim_in' = [valid |-> reset_n, bar_wr_en |-> wr_en,
                        was_pending |-> register_write_pending,
                        timer |-> register_access_timer]
    /\ UNCHANGED <<reset_n, genVars, regVars, irqVars, vivVars, extVars>>

\* negedge reset_n: the reset branch runs at once
timer_negedge_reset_n ==
    /\ reset_n
    /\ reset_n' = FALSE
    /\ GlobalTimingEvaluate(FALSE, FALSE)
    /\ tim_in' = [tim_in EXCEPT !.valid = FALSE]
    /\ UNCHANGED <<genVars, regVars, irqVars, vivVars, extVars>>

timer_release_reset_n ==
    /\ ~reset_n
    /\ reset_n' = TRUE
    /\ UNCHANGED <<timVars, genVars, regVars, irqVars, vivVars, extVars>>

\* the timer values a run starts from: the declared 32'h0, and 2^32 - 16, the
\* value the free-running timer holds after that many clock edges
TimerStarts == { <<0, 0>>, <<65535, 65520>> }

InitTimer ==
    /\ regs = <<>>
    /\ variance_model = NoVariance
    /\ device_config = DefaultDeviceConfig("GENERIC")
    /\ perf_config = DefaultPerfConfig
    /\ GeneratorIdle
    /\ ClockIdle
    /\ CrossingIdle
    /\ ParallelIdle
    /\ ToolchainIdle
    /\ HardwareIdle
    /\ register_access_timer \in TimerStarts
    /\ register_write_pending = FALSE
    /\ tim_in = [valid |-> FALSE, bar_wr_en |-> FALSE, was_pending |-> FALSE,
                 timer |-> <<0, 0>>]
    /\ wp_phase = 0
    /\ wp_age = -1
    /\ wp_window = -1
    /\ tim_cycles = 0

NextTimer ==
    \/ timer_posedge_clk
    \/ timer_negedge_reset_n
    \/ timer_release_reset_n

SpecTimer == InitTimer /\ [][NextTimer]_vars

-----------------------------------------------------------------------------
(* The Vivado toolchain wrapper: find_vivado_installation and              *)
(* run_vivado_command                                                       *)

\* shutil.which("vivado")
WhichResults == {"None", "/usr/bin/vivado", "/usr/local/bin/vivado"}

\* what listing an install root gives: nothing there, an installation, or a
\* PermissionError
ListingOutcomes == {"absent", "found", "denied"}

\* XILINX_VIVADO: not set, naming an installation, naming no installation
EnvironOutcomes == {"unset", "valid", "invalid"}

SearchEnvs ==
    [which : WhichResults, common : ListingOutcomes, pattern : ListingOutcomes,
     environ : EnvironOutcomes]

Installation(exe) == [found |-> TRUE, executable |-> exe]

\* the search strategies, in the order they are tried
SearchStrategies == <<"path", "common", "pattern", "environ">>

CommonRootExecutable == "/opt/Xilinx/Vivado/2023.1/bin/vivado"
VersionPatternExecutable == "/tools/Xilinx/2023.1/Vivado/bin/vivado"
EnvironExecutable == "$XILINX_VIVADO/bin/vivado"

\* a strategy that lets the PermissionError of os.listdir escape
StrategyOutcomePropagating(env, s) ==
    CASE s = "path" ->
            [installation |-> IF env.which # "None" THEN Installation(env.which)
                              ELSE NoInstallation,
             raised |-> FALSE]
      [] s = "common" ->
            [installation |-> IF env.common = "found"
                              THEN Installation(CommonRootExecutable)
                              ELSE NoInstallation,
             raised |-> env.common = "denied"]
      [] s = "pattern" ->
            [installation |-> IF env.pattern = "found"
                              THEN Installation(VersionPatternExecutable)
                              ELSE NoInstallation,
             raised |-> env.pattern = "denied"]
      [] OTHER ->
            [installation |-> IF env.environ = "valid"
                              THEN Installation(EnvironExecutable)
                              ELSE NoInstallation,
             raised |-> FALSE]

\* one search strategy: the installation it finds, and whether it raises; a
\* PermissionError while listing a directory is caught inside the strategy
StrategyOutcome(env, s) ==
    CASE s = "path" ->
            [installation |-> IF env.which # "None" THEN Installation(env.which)
                              ELSE NoInstallation,
             raised |-> FALSE]
      [] s = "common" ->
            [installation |-> IF env.common = "found"
                              THEN Installation(CommonRootExecutable)
                              ELSE NoInstallation,
             raised |-> FALSE]
      [] s = "pattern" ->
            [installation |-> IF env.pattern = "found"
                              THEN Installation(VersionPatternExecutable)
                              ELSE NoInstallation,
             raised |-> FALSE]
      [] OTHER ->
            [installation |-> IF env.environ = "valid"
                              THEN Installation(EnvironExecutable)
                              ELSE NoInstallation,
             raised |-> FALSE]

RECURSIVE SearchFrom(_, _)
\* the strategies from the k-th on, stopping at the first that finds an
\* installation
SearchFrom(env, k) ==
    IF k > Len(SearchStrategies)
    THEN [result |-> NoInstallation, raised |-> NoException, tried |-> <<>>]
    ELSE LET s == SearchStrategies[k]
             o == StrategyOutcome(env, s)
         IN  IF o.raised
             THEN [result |-> NoInstallation,
                   raised |-> [type |-> "PermissionError", mentions |-> {}],
                   tried |-> <<s>>]
             ELSE IF o.installation.found
             THEN [result |-> o.installation, raised |-> NoException,
                   tried |-> <<s>>]
             ELSE [SearchFrom(env, k + 1) EXCEPT !.tried = <<s>> \o @]

\* one call of find_vivado_installation()
find_vivado_installation ==
    /\ find_pc = "ready"
    /\ LET found == SearchFrom(search_env, 1)
       IN  /\ find_result' = found.result
           /\ find_raised' = found.raised
           /\ find_tried' = found.tried
    /\ find_pc' = "done"
    /\ UNCHANGED <<search_env, runVars, genVars, regVars, irqVars, timVars, reset_n, extVars>>

\* the discovered executable whenever there is one, whatever the flag says
ResolveExecutableIgnoringFlag(use_discovered, installation, which) ==
    IF installation.found THEN installation.executable
    ELSE which

\* the executable run_vivado_command runs, "None" when there is none
ResolveExecutable(use_discovered, installation, which) ==
    IF use_discovered /\ installation.found THEN installation.executable
    ELSE which

VivadoNotFound ==
    [type |-> "FileNotFoundError",
     mentions |-> {"Vivado not found", "PATH", "XILINX_VIVADO"}]

\* the argument list handed to subprocess.run
VivadoCommandLine(exe, args, tcl) ==
    <<exe>> \o args \o (IF tcl # "None" THEN <<"-source", tcl>> ELSE <<>>)

\* one call of run_vivado_command(args, tcl_file, use_discovered_path);
\* find_result is what find_vivado_installation() returns to it and
\* search_env.which what shutil.which("vivado") returns
run_vivado_command ==
    /\ run_pc = "ready"
    /\ LET exe == ResolveExecutable(use_discovered_path, find_result,
                                    search_env.which)
       IN  IF exe = "None"
           THEN /\ run_raised' = VivadoNotFound
                /\ subprocess_calls' = subprocess_calls
           ELSE /\ run_raised' = NoException
                /\ subprocess_calls' =
                      Append(subprocess_calls,
                             VivadoCommandLine(exe, vivado_args, tcl_file))
    /\ run_pc' = "done"
    /\ UNCHANGED <<use_discovered_path, vivado_args, tcl_file, findVars>>
    /\ UNCHANGED <<genVars, regVars, irqVars, timVars, reset_n, extVars>>

\* SpecFind: find_vivado_installation on every search environment
InitFind ==
    /\ regs = <<>>
    /\ variance_model = NoVariance
    /\ device_config = DefaultDeviceConfig("GENERIC")
    /\ perf_config = DefaultPerfConfig
    /\ GeneratorIdle
    /\ ClockIdle
    /\ CrossingIdle
    /\ ParallelIdle
    /\ TimerIdle
    /\ HardwareIdle
    /\ search_env \in SearchEnvs
    /\ find_pc = "ready"
    /\ find_result = NoInstallation
    /\ find_raised = NoException
    /\ find_tried = <<>>
    /\ use_discovered_path = TRUE
    /\ vivado_args = <<>>
    /\ tcl_file = "None"
    /\ run_pc = "ready"
    /\ run_raised = NoException
    /\ subprocess_calls = <<>>

NextFind == find_vivado_installation

SpecFind == InitFind /\ [][NextFind]_vars

\* the installations find_vivado_installation() hands to run_vivado_command
FindResults ==
    {NoInstallation, Installation(CommonRootExecutable),
     Installation("/usr/bin/vivado")}

VivadoArgLists == {<<"-mode", "batch">>, <<"-version">>}

TclFiles == {"None", "script.tcl"}

\* SpecRun: run_vivado_command for every discovery result, PATH content and
\* argument combination
InitRun ==
    /\ regs = <<>>
    /\ variance_model = NoVariance
    /\ device_config = DefaultDeviceConfig("GENERIC")
    /\ perf_config = DefaultPerfConfig
    /\ GeneratorIdle
    /\ ClockIdle
    /\ CrossingIdle
    /\ ParallelIdle
    /\ TimerIdle
    /\ HardwareIdle
    /\ \E w \in WhichResults :
          search_env = [which |-> w, common |-> "absent", pattern |-> "absent",
                        environ |-> "unset"]
    /\ find_pc = "done"
    /\ find_result \in FindResults
    /\ find_raised = NoException
    /\ find_tried = <<>>
    /\ use_discovered_path \in BOOLEAN
    /\ vivado_args \in VivadoArgLists
    /\ tcl_file \in TclFiles
    /\ run_pc = "ready"
    /\ run_raised = NoException
    /\ subprocess_calls = <<>>

NextRun == run_vivado_command

SpecRun == InitRun /\ [][NextRun]_vars

-----------------------------------------------------------------------------
(* SpecClk: the emitted clock domain management logic as hardware, under    *)
(* the three clock inputs of the module                                     *)

\* the clock inputs of the module header
ClockDomains == {"clk", "mem_clk", "aux_clk"}

\* assign clock_domain_status = {aux_clk_valid, mem_clk_valid, 1'b1}
ClockDomainStatus(aux_valid, mem_valid) == <<aux_valid, mem_valid, TRUE>>

\* the monitor counter declared for a clock domain
MonitorCounter(domain) ==
    IF domain = "clk" THEN clk_monitor_counter
    ELSE IF domain = "mem_clk" THEN mem_clk_monitor_counter
    ELSE aux_clk_monitor_counter

\* the always_ff block: the only one of the fragment, sensitive to clk
ClkMonitorStep(counter, rn) ==
    IF ~rn THEN 0 ELSE (counter + 1) % 65536

\* a rising edge of one of the three clocks; no block is sensitive to mem_clk
\* or aux_clk
clock_posedge(domain) ==
    /\ clk_cycles < MaxClockEdges
    /\ clk_monitor_counter' =
          IF domain = "clk" THEN ClkMonitorStep(clk_monitor_counter, reset_n)
          ELSE clk_monitor_counter
    /\ clock_domain_status' = ClockDomainStatus(aux_clk_valid, mem_clk_valid)
    /\ clk_in' = [valid |-> reset_n, domain |-> domain,
                  before |-> MonitorCounter(domain)]
    /\ clk_cycles' = clk_cycles + 1
    /\ UNCHANGED <<mem_clk_monitor_counter, aux_clk_monitor_counter,
                   mem_clk_valid, aux_clk_valid, cdcVars, parVars>>
    /\ UNCHANGED <<reset_n, genVars, regVars, irqVars, timVars, vivVars>>

\* negedge reset_n: the reset branch of the clk block runs at once
clock_negedge_reset_n ==
    /\ reset_n
    /\ reset_n' = FALSE
    /\ clk_monitor_counter' = ClkMonitorStep(clk_monitor_counter, FALSE)
    /\ clock_domain_status' = ClockDomainStatus(aux_clk_valid, mem_clk_valid)
    /\ clk_in' = [clk_in EXCEPT !.valid = FALSE]
    /\ clk_cycles' = 0
    /\ UNCHANGED <<mem_clk_monitor_counter, aux_clk_monitor_counter,
                   mem_clk_valid, aux_clk_valid, cdcVars, parVars>>
    /\ UNCHANGED <<genVars, regVars, irqVars, timVars, vivVars>>

clock_release_reset_n ==
    /\ ~reset_n
    /\ reset_n' = TRUE
    /\ UNCHANGED <<clkVars, cdcVars, parVars, genVars, regVars, irqVars, timVars,
                   vivVars>>

\* the values clk_monitor_counter starts a run from: the declared 16'h0, and
\* 16'hFFFE, which the free-running counter holds after that many clk edges
ClkCounterStarts == {0, 65534}

InitClk ==
    /\ regs = <<>>
    /\ variance_model = NoVariance
    /\ device_config = DefaultDeviceConfig("GENERIC")
    /\ perf_config = DefaultPerfConfig
    /\ GeneratorIdle
    /\ ToolchainIdle
    /\ TimerIdle
    /\ HardwareIdle
    /\ CrossingIdle
    /\ ParallelIdle
    /\ clk_monitor_counter \in ClkCounterStarts
    /\ mem_clk_monitor_counter = 0
    /\ aux_clk_monitor_counter = 0
    /\ clock_domain_status = <<TRUE, TRUE, TRUE>>
    /\ mem_clk_valid = TRUE
    /\ aux_clk_valid = TRUE
    /\ clk_in = [valid |-> FALSE, domain |-> "clk", before |-> 0]
    /\ clk_cycles = 0

NextClk ==
    \/ \E domain \in ClockDomains : clock_posedge(domain)
    \/ clock_negedge_reset_n
    \/ clock_release_reset_n

SpecClk == InitClk /\ [][NextClk]_vars

-----------------------------------------------------------------------------
(* SpecCdc: the emitted module advanced_clock_crossing as hardware, under   *)
(* its two clocks                                                           *)

\* the words offered on src_data
CrossingWords == { <<0, 0>>, <<65535, 65535>> }

\* assign src_ready = !valid_reg || sync_reg[SYNC_STAGES-1]
src_ready == ~valid_reg \/ sync_reg[SYNC_STAGES]

\* assign dst_valid = sync_reg[SYNC_STAGES-1] && dst_ready
dst_valid == sync_reg[SYNC_STAGES] /\ dst_ready

\* assign dst_data = data_reg
dst_data == data_reg

\* the source domain always_ff block; st = [data, valid], the right-hand sides
\* read the values before the edge
SourceDomainStep(st, sync, src_valid, src_data, rn) ==
    IF ~rn THEN [data |-> <<0, 0>>, valid |-> FALSE]
    ELSE IF src_valid /\ (~st.valid \/ sync[SYNC_STAGES])
         THEN [data |-> src_data, valid |-> TRUE]
    ELSE IF sync[SYNC_STAGES] THEN [st EXCEPT !.valid = FALSE]
    ELSE st

\* the destination domain always_ff block:
\* sync_reg <= {sync_reg[SYNC_STAGES-2:0], valid_reg}
SynchronizerStep(sync, valid, rn) ==
    IF ~rn THEN [k \in 1..SYNC_STAGES |-> FALSE]
    ELSE [k \in 1..SYNC_STAGES |-> IF k = 1 THEN valid ELSE sync[k - 1]]

\* the latched word has not had dst_valid high for it, this moment included
WordUnseen == word_pending /\ ~dst_valid

\* posedge src_clk with src_valid and src_data sampled
crossing_posedge_src_clk ==
    /\ \E sv \in BOOLEAN, sd \in CrossingWords :
          LET st == SourceDomainStep([data |-> data_reg, valid |-> valid_reg],
                                     sync_reg, sv, sd, reset_n)
              latches == reset_n /\ sv /\ src_ready
              clears == reset_n /\ ~latches /\ valid_reg /\ ~st.valid
          IN  /\ data_reg' = st.data
              /\ valid_reg' = st.valid
              /\ latch_age' = IF ~reset_n THEN -1
                              ELSE IF latches THEN 0
                              ELSE latch_age
              /\ word_pending' = IF ~reset_n THEN FALSE
                                 ELSE IF latches THEN TRUE
                                 ELSE WordUnseen
              /\ word_lost' = IF ~reset_n THEN "none"
                              ELSE IF WordUnseen /\ latches THEN "replaced"
                              ELSE IF WordUnseen /\ clears THEN "cleared"
                              ELSE word_lost
    /\ UNCHANGED <<sync_reg, dst_ready, cdc_was_reset, clkVars, parVars>>
    /\ UNCHANGED <<reset_n, genVars, regVars, irqVars, timVars, vivVars>>

\* posedge dst_clk
crossing_posedge_dst_clk ==
    /\ sync_reg' = SynchronizerStep(sync_reg, valid_reg, reset_n)
    /\ latch_age' = IF latch_age = -1 \/ latch_age = SYNC_STAGES THEN latch_age
                    ELSE latch_age + 1
    /\ word_pending' = (reset_n /\ WordUnseen)
    /\ word_lost' = IF reset_n THEN word_lost ELSE "none"
    /\ UNCHANGED <<data_reg, valid_reg, dst_ready, cdc_was_reset, clkVars, parVars>>
    /\ UNCHANGED <<reset_n, genVars, regVars, irqVars, timVars, vivVars>>

\* negedge reset_n: the reset branches of both blocks run at once
crossing_negedge_reset_n ==
    /\ reset_n
    /\ reset_n' = FALSE
    /\ LET st == SourceDomainStep([data |-> data_reg, valid |-> valid_reg],
                                  sync_reg, FALSE, <<0, 0>>, FALSE)
       IN  /\ data_reg' = st.data
           /\ valid_reg' = st.valid
    /\ sync_reg' = SynchronizerStep(sync_reg, valid_reg, FALSE)
    /\ latch_age' = -1
    /\ cdc_was_reset' = TRUE
    /\ word_pending' = FALSE
    /\ word_lost' = "none"
    /\ UNCHANGED <<dst_ready, clkVars, parVars>>
    /\ UNCHANGED <<genVars, regVars, irqVars, timVars, vivVars>>

crossing_release_reset_n ==
    /\ ~reset_n
    /\ reset_n' = TRUE
    /\ UNCHANGED <<cdcVars, clkVars, parVars, genVars, regVars, irqVars, timVars,
                   vivVars>>

\* the consumer raises or lowers dst_ready
crossing_drive_dst_ready ==
    /\ dst_ready' = ~dst_ready
    /\ word_pending' = WordUnseen
    /\ UNCHANGED <<sync_reg, data_reg, valid_reg, latch_age, cdc_was_reset,
                   word_lost, clkVars, parVars>>
    /\ UNCHANGED <<reset_n, genVars, regVars, irqVars, timVars, vivVars>>

\* sync_reg, data_reg and valid_reg are declared without initial values: the
\* module powers up with any contents
InitCdc ==
    /\ regs = <<>>
    /\ variance_model = NoVariance
    /\ device_config = DefaultDeviceConfig("GENERIC")
    /\ perf_config = DefaultPerfConfig
    /\ GeneratorIdle
    /\ ToolchainIdle
    /\ TimerIdle
    /\ HardwareIdle
    /\ ClockIdle
    /\ ParallelIdle
    /\ sync_reg \in [1..SYNC_STAGES -> BOOLEAN]
    /\ data_reg \in CrossingWords
    /\ valid_reg \in BOOLEAN
    /\ dst_ready = FALSE
    /\ latch_age = -1
    /\ cdc_was_reset = FALSE
    /\ word_pending = FALSE
    /\ word_lost = "none"

NextCdc ==
    \/ crossing_posedge_src_clk
    \/ crossing_posedge_dst_clk
    \/ crossing_negedge_reset_n
    \/ crossing_release_reset_n
    \/ crossing_drive_dst_ready

SpecCdc == InitCdc /\ [][NextCdc]_vars

-----------------------------------------------------------------------------
(* SpecPar: two synthesis runs in parallel threads, each on its own         *)
(* generator instance, through the declaration loop of                      *)
(* generate_register_logic                                                  *)

\* the grid index random.random() returns from a generator state; the call
\* moves the generator to the next state
RandomOf(state) == state % RandomSteps

\* one pass of 'for reg in regs' over the register declarations, in run r:
\* random.random() is the generator of the random module, one per interpreter
par_declare_register(r) ==
    /\ par_pc[r] <= Len(regs)
    /\ LET reg == regs[par_pc[r]]
           calls == UsesRandom(reg, variance_model)
           j == IF calls THEN RandomOf(rng_state) ELSE 0
       IN  /\ par_decl' = [par_decl EXCEPT
                             ![r] = @ \o RegisterDeclarations(reg, variance_model, j)]
           /\ par_draws' = [par_draws EXCEPT ![r] = Append(@, j)]
           /\ rng_state' = IF calls THEN rng_state + 1 ELSE rng_state
           /\ rng_users' = IF calls THEN rng_users \cup {r} ELSE rng_users
    /\ par_pc' = [par_pc EXCEPT ![r] = @ + 1]
    /\ UNCHANGED <<clkVars, cdcVars, reset_n, genVars, regVars, irqVars, timVars,
                   vivVars>>

\* the generator is seeded from the operating system when random is imported
InitPar ==
    /\ regs \in RegMaps
    /\ variance_model \in VarianceModels
    /\ device_config = DefaultDeviceConfig("GENERIC")
    /\ perf_config = DefaultPerfConfig
    /\ GeneratorIdle
    /\ ToolchainIdle
    /\ TimerIdle
    /\ HardwareIdle
    /\ ClockIdle
    /\ CrossingIdle
    /\ rng_state \in 0..(RandomSteps - 1)
    /\ rng_users = {}
    /\ par_pc = [r \in Runs |-> 1]
    /\ par_decl = [r \in Runs |-> <<>>]
    /\ par_draws = [r \in Runs |-> <<>>]

NextPar == \E r \in Runs : par_declare_register(r)

SpecPar == InitPar /\ [][NextPar]_vars

-----------------------------------------------------------------------------
(* Vocabulary of the properties *)

Done(r) == pc[r] = "done"

RegOffsetText(reg) == FormatHex8(<<0, ParseOffset(reg.offset)>>)

FixedAddresses == {FixedReadEntries[k].addr : k \in 1..Len(FixedReadEntries)}

SharesOffset(rs) ==
    \E i, j \in 1..Len(rs) :
        i # j /\ ParseOffset(rs[i].offset) = ParseOffset(rs[j].offset)

HitsFixedAddress(rs) == \E i \in 1..Len(rs) : RegOffsetText(rs[i]) \in FixedAddresses

SharesName(rs) == \E i, j \in 1..Len(rs) : i # j /\ rs[i].name = rs[j].name

ValidRegisterMap(rs) ==
    ~SharesName(rs) /\ ~SharesOffset(rs) /\ ~HitsFixedAddress(rs)

IsCase(item) == item.kind = "case"
IsDecl(item) == item.kind = "decl"

\* the non-default entries of an address-decode table
CaseEntries(table) == SelectSeq(table, IsCase)

NoRepeatedAddress(table) ==
    LET es == CaseEntries(table)
    IN  \A i, j \in 1..Len(es) : es[i].addr = es[j].addr => i = j

NoRepeatedSignal(fragment) ==
    LET ds == SelectSeq(fragment, IsDecl)
    IN  \A i, j \in 1..Len(ds) : ds[i].signal = ds[j].signal => i = j

\* the constant register i is declared with, read back from the fragment
DeclaredInitOf(fragment, i) == ParseHexWord(fragment[3 * i].init)

\* the value of a named header item
HeaderValue(h, kind, name) ==
    LET i == CHOOSE i \in 1..Len(h) : h[i].kind = kind /\ h[i].name = name
    IN  h[i].value

-----------------------------------------------------------------------------
(* C1 *)

\* C1: synthesis fails with a configuration error, returning no module text,
\* whenever two descriptors share an offset or a descriptor's offset is one
\* of the fixed status addresses; no emitted address-decode table holds the
\* same address in two entries.  (The code has no such check.)
C1_CollisionRefused ==
    Done("first") =>
        /\ (SharesOffset(regs) \/ HitsFixedAddress(regs)) =>
               (raised["first"] = "ConfigurationError" /\ ret["first"] = NotReturned)
        /\ NoRepeatedAddress(frags["first"].read_logic)

-----------------------------------------------------------------------------
(* C4 *)

\* C4: for every register map with unique names and with offsets disjoint
\* from each other and from the fixed addresses, synthesis succeeds and the
\* address-decode table has exactly 12 + N non-default entries, all at
\* different addresses.
C4_TableSize ==
    (Done("first") /\ ValidRegisterMap(regs)) =>
        /\ raised["first"] = NoError
        /\ ret["first"] # NotReturned
        /\ Len(CaseEntries(frags["first"].read_logic)) = 12 + Len(regs)
        /\ NoRepeatedAddress(frags["first"].read_logic)

C4_Witness ==
    /\ Done("first")
    /\ ValidRegisterMap(regs)
    /\ Len(regs) = 2
    /\ Len(CaseEntries(frags["first"].read_logic)) = 14

-----------------------------------------------------------------------------
(* C6 *)

\* 200 * d for a word d, unmasked: <<carry, hi, lo>>
Times200(d) ==
    LET lo200 == d[2] * 200
        hi200 == d[1] * 200 + lo200 \div 65536
    IN  <<hi200 \div 65536, hi200 % 65536, lo200 % 65536>>

\* |e - v| <= 0.005 * v
WithinHalfPercent(e, v) ==
    LET t == Times200(WordAbsDiff(e, v))
    IN  t[1] = 0 /\ WordLeq(<<t[2], t[3]>>, v)

\* |e - v| <= ceiling(0.005 * v), i.e. |e - v| = 0 or 200 * (|e - v| - 1) < v
WithinHalfPercentRoundedUp(e, v) ==
    LET d == WordAbsDiff(e, v)
        d1 == IF d[2] = 0 THEN <<d[1] - 1, 65535>> ELSE <<d[1], d[2] - 1>>
        t == Times200(d1)
    IN  d = <<0, 0>> \/ (t[1] = 0 /\ WordLeq(<<t[2], t[3]>>, v) /\ <<t[2], t[3]>> # v)

\* 1.005 * v stays below 2^32
NoWrapPossible(v) == MulDiv(v, 201, 200)[1] = 0

\* C6 as stated: with a variance model, every register other than the
\* shadow-status register is declared with a value within 0.5% of its
\* configured reset value, for every 32-bit configured value.
C6_WithinHalfPercent ==
    (Done("first") /\ variance_model.present) =>
        \A i \in 1..Len(regs) :
            regs[i].name # ShadowStatusName =>
                WithinHalfPercent(DeclaredInitOf(frags["first"].register_logic, i),
                                  ParseHexWord(regs[i].value))

\* C6 as amended: with a variance model, every register other than the
\* shadow-status register whose configured value v has 1.005 * v < 2^32 is
\* declared with a value e such that |e - v| <= ceiling(0.005 * v).
C6_WithinHalfPercentNoWrap ==
    (Done("first") /\ variance_model.present) =>
        \A i \in 1..Len(regs) :
            (regs[i].name # ShadowStatusName
                /\ NoWrapPossible(ParseHexWord(regs[i].value))) =>
                WithinHalfPercentRoundedUp(
                    DeclaredInitOf(frags["first"].register_logic, i),
                    ParseHexWord(regs[i].value))

C6_Witness ==
    /\ Done("first")
    /\ variance_model.present
    /\ \E i \in 1..Len(regs) :
          /\ regs[i].name # ShadowStatusName
          /\ NoWrapPossible(ParseHexWord(regs[i].value))
          /\ DeclaredInitOf(frags["first"].register_logic, i)
                 # ParseHexWord(regs[i].value)

-----------------------------------------------------------------------------
(* C7 *)

\* C7: the returned module text is, in this order, the header, the power,
\* error, performance, clock-domain, interrupt, register and address-decode
\* fragments generated in this run, the closing endmodule and the
\* clock-domain-crossing module.  (The code returns its template unfilled.)
C7_AssembledInOrder ==
    Done("first") =>
        ret["first"] =
            frags["first"].module_header
            \o frags["first"].power_management
            \o frags["first"].error_handling
            \o frags["first"].performance_counters
            \o frags["first"].clock_domains
            \o frags["first"].interrupt_handling
            \o frags["first"].register_logic
            \o frags["first"].read_logic
            \o << Text("endmodule"), ClockCrossingModule >>

-----------------------------------------------------------------------------
(* C8 *)

\* C8: two synthesis runs on the same register map and configuration with no
\* variance model return the same module text, and the register, read,
\* interrupt and clock-domain generators return the same text in both runs.
C8_Idempotent ==
    (Done("first") /\ Done("second") /\ ~variance_model.present) =>
        /\ ret["first"] = ret["second"]
        /\ frags["first"].register_logic = frags["second"].register_logic
        /\ frags["first"].read_logic = frags["second"].read_logic
        /\ frags["first"].interrupt_handling = frags["second"].interrupt_handling
        /\ frags["first"].clock_domains = frags["second"].clock_domains

C8_Witness ==
    /\ Done("first") /\ Done("second")
    /\ ~variance_model.present
    /\ Len(regs) = 2
    /\ \E i \in 1..Len(regs) : regs[i].name # ShadowStatusName
    /\ ret["first"] = ret["second"]

-----------------------------------------------------------------------------
(* C9 *)

\* C9: the header carries the configuration's device_type value as its
\* DEVICE_TYPE parameter and the port block chosen for that device_type, and
\* its COUNTER_WIDTH parameter is the performance configuration's counter
\* width.  (The header is returned with its brace expressions unevaluated.)
C9_HeaderConsistent ==
    header # NotReturned =>
        /\ HeaderValue(header, "param", "DEVICE_TYPE")
               = DeviceTypeValue(device_config.device_type)
        /\ HeaderValue(header, "ports", "device_specific")
               = generate_device_specific_ports(device_config)
        /\ HeaderValue(header, "param", "COUNTER_WIDTH")
               = DecimalText(perf_config.counter_width_bits)

-----------------------------------------------------------------------------
(* C10 *)

\* C10: if two descriptors share a name, synthesis fails with a configuration
\* error before any text is produced; no generated signal name is declared
\* twice.  (The code has no such check.)
C10_DuplicateNameRefused ==
    Done("first") =>
        /\ SharesName(regs) =>
               (raised["first"] = "ConfigurationError" /\ ret["first"] = NotReturned)
        /\ NoRepeatedSignal(frags["first"].register_logic)

-----------------------------------------------------------------------------
(* C2 *)

ObservedWritable == write_block # <<>>

\* C2 as stated: with a variance model and seeded delay d = max(1, jitter_ns
\* div 10), the stored value of a read-write or write-only register is
\* loaded exactly d clock cycles after the strobe cycle.  (The code loads it
\* d + 1 cycles after: the counter runs d, d-1, .., 0 and the load happens in
\* the cycle that finds it 0.)
C2_CommitAfterSeededDelay ==
    (variance_model.present /\ ObservedWritable /\ commit_delay # -1) =>
        commit_delay = base_delay(variance_model)

-----------------------------------------------------------------------------
(* C3 *)

\* C3: after every clock edge with reset deasserted, the highest-priority
\* active trigger sampled at that edge decides the interrupt state:
\* uncorrectable error gives (0x02, 0xF), else correctable error (0x01, 0x8),
\* else bar_wr_en or bar_rd_en (0x00, 0x4).
C3_InterruptPriority ==
    irq_in.valid =>
        /\ irq_in.uncorrectable_error =>
              /\ interrupt_pending
              /\ interrupt_vector = 2
              /\ interrupt_priority = 15
        /\ (~irq_in.uncorrectable_error /\ irq_in.correctable_error) =>
              /\ interrupt_pending
              /\ interrupt_vector = 1
              /\ interrupt_priority = 8
        /\ (~irq_in.uncorrectable_error /\ ~irq_in.correctable_error
                /\ (irq_in.bar_wr_en \/ irq_in.bar_rd_en)) =>
              /\ interrupt_pending
              /\ interrupt_vector = 0
              /\ interrupt_priority = 4

\* both errors at once, sampled over a pending bus-access interrupt
C3_Witness ==
    /\ irq_in.valid
    /\ irq_in.uncorrectable_error /\ irq_in.correctable_error
    /\ irq_prev = [pending |-> TRUE, vector |-> 0, priority |-> 4]
    /\ interrupt_vector = 2 /\ interrupt_priority = 15

-----------------------------------------------------------------------------
(* C5 *)

\* the address of the observed register selects its own signal in the read
\* logic (always so in a map with distinct, non-fixed offsets)
ReadsObserved ==
    ReadSource(generate_read_logic(regs), ParseOffset(regs[obs].offset))
        = <<regs[obs].name, "_reg">>

\* C5: with no variance model, a write strobe to a read-write register
\* loads the write data at the strobe edge itself, the register never enters
\* PENDING, and from then until the next strobe or reset a read of the
\* register's address returns the written value.
C5_SameCycleCommit ==
    (~variance_model.present /\ obs # 0 /\ regs[obs].rw = "rw") =>
        /\ ~access_pending /\ timing_counter = 0
        /\ last_written.valid =>
              /\ commit_delay = 0
              /\ reg_value = last_written.data
              /\ ValidRegisterMap(regs) => ReadsObserved

\* the spec's scenario: ctrl at 0x30 holds 0xDEADBEEF, idle cycles later
C5_Witness ==
    /\ ~variance_model.present
    /\ obs # 0 /\ regs[obs].rw = "rw" /\ ParseOffset(regs[obs].offset) = 48
    /\ ValidRegisterMap(regs)
    /\ last_written = [valid |-> TRUE, data |-> <<57005, 48879>>]
    /\ ~bus.wr_en
    /\ reg_value = <<57005, 48879>>
    /\ ReadsObserved

-----------------------------------------------------------------------------
(* C13 *)

\* C13: once reset has been asserted on a writable register, whatever state
\* it interrupted, the access-pending flag is 0, the timing counter is 0 and
\* the stored value is the configured reset value, and they stay so until the
\* next write strobe: a write in flight at the reset is never committed.
C13_ResetOverrides ==
    (ObservedWritable /\ reset_from # "none" /\ ~last_written.valid) =>
        /\ ~access_pending
        /\ timing_counter = 0
        /\ reg_value = ParseHexWord(regs[obs].value)

\* reset interrupted a PENDING write of 0xDEADBEEF and has been released
C13_Witness ==
    /\ ObservedWritable
    /\ variance_model.present
    /\ reset_from = "pending"
    /\ reset_n
    /\ ~last_written.valid
    /\ bus.data = <<57005, 48879>>
    /\ reg_value = ParseHexWord(regs[obs].value)

-----------------------------------------------------------------------------
(* C14 *)

\* C14: with a variance model, the stored value is not loaded at the strobe
\* edge, and the value loaded when the delay counter expires is the write
\* data that accompanied the strobe, whatever bar_wr_data carries afterwards.
\* (The code loads bar_wr_data as it is at the expiry edge.)
C14_CommitsStrobeData ==
    (variance_model.present /\ ObservedWritable) =>
        /\ access_pending => commit_delay = -1
        /\ commit_delay # -1 => reg_value = last_written.data

-----------------------------------------------------------------------------
(* C15 *)

\* C15: with a variance model, the shadow-status register holds the literal
\* value 1 at initialisation and after every reset (until it is written),
\* whatever its configured reset value and access mode.  (The reset branch
\* of a writable shadow-status register restores the configured value.)
C15_ShadowStatusIsOne ==
    (variance_model.present /\ obs # 0 /\ regs[obs].name = ShadowStatusName
        /\ ~last_written.valid) =>
        reg_value = <<0, 1>>

-----------------------------------------------------------------------------
(* C16 *)

\* C16: with a variance model, every writable register other than the
\* shadow-status register has one perturbed reset constant per run: the
\* constant its reset branch restores is the constant it is declared with.
\* (The reset branch is emitted with the unperturbed configured value.)
C16_OneResetConstant ==
    (Done("first") /\ variance_model.present /\ ValidRegisterMap(regs)) =>
        LET fragment == frags["first"].register_logic
        IN  \A i \in 1..Len(regs) :
                regs[i].name # ShadowStatusName =>
                    \A k \in 1..Len(fragment) :
                        (fragment[k].kind = "write"
                            /\ fragment[k].name = regs[i].name) =>
                            fragment[k].reset = fragment[3 * i].init

-----------------------------------------------------------------------------
(* C20 *)

\* C20: with a variance model, the delay emitted for a writable register is
\* max(1, jitter_ns div 10), so at least 1 also for jitter 0; a strobe opens
\* a PENDING phase with the counter seeded to it (in the counter's 8 bits),
\* and the commit comes at least one clock edge after the strobe edge.
C20_SeededDelayAtLeastOne ==
    (variance_model.present /\ ObservedWritable) =>
        LET q == variance_model.register_timing_jitter_ns \div 10
            d == write_block[1].delay
        IN  /\ d = (IF q < 1 THEN 1 ELSE q)
            /\ d >= 1
            /\ since = 0 => (access_pending /\ timing_counter = d % 256)
            /\ commit_delay # -1 => commit_delay >= 1

\* a zero-jitter model: the strobe edge leaves the register PENDING
C20_Witness ==
    /\ variance_model.present
    /\ variance_model.register_timing_jitter_ns = 0
    /\ ObservedWritable
    /\ since = 0
    /\ access_pending
    /\ timing_counter = 1

-----------------------------------------------------------------------------
(* C18 *)

AnyTrigger(in) ==
    in.uncorrectable_error \/ in.correctable_error \/ in.bar_wr_en \/ in.bar_rd_en

\* C18: at a clock edge out of reset, msi_ack returns the arbiter to IDLE with
\* vector and priority 0 when no trigger is active at that edge; with a
\* trigger active at the same edge the state after it is PENDING with the
\* trigger's vector and priority; PENDING is left at such an edge only by an
\* acknowledgment without a trigger.
C18_AckClearsOnlyWithoutTrigger ==
    irq_in.valid =>
        /\ (irq_in.msi_ack /\ ~AnyTrigger(irq_in)) => InterruptState = InterruptReset
        /\ (irq_in.msi_ack /\ AnyTrigger(irq_in)) =>
              /\ interrupt_pending
              /\ <<interrupt_vector, interrupt_priority>> =
                    IF irq_in.uncorrectable_error THEN <<2, 15>>
                    ELSE IF irq_in.correctable_error THEN <<1, 8>>
                    ELSE <<0, 4>>
        /\ (irq_prev.pending /\ ~interrupt_pending) =>
              (irq_in.msi_ack /\ ~AnyTrigger(irq_in))

\* an acknowledgment and a bus read at the same edge, over a pending
\* uncorrectable-error interrupt
C18_Witness ==
    /\ irq_in.valid
    /\ irq_in.msi_ack /\ irq_in.bar_rd_en
    /\ ~irq_in.uncorrectable_error /\ ~irq_in.correctable_error
    /\ irq_prev = [pending |-> TRUE, vector |-> 2, priority |-> 15]
    /\ interrupt_pending /\ interrupt_vector = 0 /\ interrupt_priority = 4

-----------------------------------------------------------------------------
(* C19 *)

\* C19: msi_request and cfg_interrupt are never both asserted; msi_request is
\* asserted exactly when an interrupt is pending and cfg_interrupt_msi_enable
\* is true, cfg_interrupt exactly when one is pending and it is false, and
\* neither while IDLE.
C19_OutputsExclusive ==
    /\ ~(msi_request /\ cfg_interrupt)
    /\ msi_request = (interrupt_pending /\ irq_in.cfg_interrupt_msi_enable)
    /\ cfg_interrupt = (interrupt_pending /\ ~irq_in.cfg_interrupt_msi_enable)
    /\ ~interrupt_pending => (~msi_request /\ ~cfg_interrupt)

\* a pending interrupt signalled through MSI
C19_Witness ==
    /\ interrupt_pending
    /\ irq_in.cfg_interrupt_msi_enable
    /\ msi_request
    /\ ~cfg_interrupt

-----------------------------------------------------------------------------
(* C17 *)

\* C17 as stated: after every clock edge out of reset at which a write strobe
\* is active the global write-pending indicator is asserted, and once
\* asserted it is deasserted exactly 16 clock cycles later, whatever the
\* access timer held when the strobe arrived.
C17_FixedWindow ==
    /\ (tim_in.valid /\ tim_in.bar_wr_en) => register_write_pending
    /\ wp_window # -1 => wp_window = 16

\* C17 as amended: a strobe at an edge where the indicator is low asserts it;
\* once asserted it is deasserted at the first later edge that finds the
\* timer's low four bits at 0xF, strobe or not: ((14 - p) mod 16) + 1 cycles
\* after the asserting edge, p being the timer's low four bits at that edge,
\* so between 1 and 16 cycles.
C17_WindowEndsAtTimerNibble ==
    /\ (tim_in.valid /\ tim_in.bar_wr_en /\ ~tim_in.was_pending) =>
           (register_write_pending /\ wp_age = 0)
    /\ register_write_pending => (wp_age >= 0 /\ wp_age < 16)
    /\ wp_window # -1 =>
           /\ wp_window = ((30 - wp_phase) % 16) + 1
           /\ wp_window >= 1 /\ wp_window <= 16
           /\ ~register_write_pending

\* a strobe that found the timer at 0x...E: the indicator fell one cycle later
C17_Witness ==
    /\ wp_window = 1
    /\ wp_phase = 14
    /\ ~register_write_pending
    /\ reset_n

-----------------------------------------------------------------------------
(* C11 *)

\* C11: run_vivado_command runs the discovered installation's executable when
\* use_discovered_path is true and discovery succeeded, otherwise the
\* executable found on the PATH (also when discovery would succeed but
\* use_discovered_path is false); when neither gives one it raises
\* FileNotFoundError mentioning 'Vivado not found', PATH and XILINX_VIVADO and
\* starts no subprocess.  A command is run once, never retried.
C11_ExecutableResolution ==
    run_pc = "done" =>
        IF use_discovered_path /\ find_result.found
        THEN /\ run_raised = NoException
             /\ Len(subprocess_calls) = 1
             /\ subprocess_calls[1][1] = find_result.executable
        ELSE IF search_env.which # "None"
        THEN /\ run_raised = NoException
             /\ Len(subprocess_calls) = 1
             /\ subprocess_calls[1][1] = search_env.which
        ELSE /\ run_raised.type = "FileNotFoundError"
             /\ {"Vivado not found", "PATH", "XILINX_VIVADO"} \subseteq run_raised.mentions
             /\ subprocess_calls = <<>>

\* use_discovered_path = False with both a discovered and a PATH executable
C11_Witness ==
    /\ run_pc = "done"
    /\ ~use_discovered_path
    /\ find_result = Installation(CommonRootExecutable)
    /\ search_env.which = "/usr/bin/vivado"
    /\ Len(subprocess_calls) = 1
    /\ subprocess_calls[1][1] = "/usr/bin/vivado"

-----------------------------------------------------------------------------
(* C12 *)

\* C12: find_vivado_installation returns the installation of the first
\* strategy that finds one, in the order PATH, common install roots,
\* version-pattern directories, XILINX_VIVADO, trying none after it; it
\* returns None when every strategy fails; it never raises, and a
\* PermissionError while listing a directory does not keep the remaining
\* strategies from being tried.
C12_FirstStrategyWins ==
    find_pc = "done" =>
        /\ find_raised = NoException
        /\ IF search_env.which # "None"
           THEN /\ find_result = Installation(search_env.which)
                /\ find_tried = <<"path">>
           ELSE IF search_env.common = "found"
           THEN /\ find_result = Installation(CommonRootExecutable)
                /\ find_tried = <<"path", "common">>
           ELSE IF search_env.pattern = "found"
           THEN /\ find_result = Installation(VersionPatternExecutable)
                /\ find_tried = <<"path", "common", "pattern">>
           ELSE IF search_env.environ = "valid"
           THEN /\ find_result = Installation(EnvironExecutable)
                /\ find_tried = <<"path", "common", "pattern", "environ">>
           ELSE /\ find_result = NoInstallation
                /\ find_tried = <<"path", "common", "pattern", "environ">>

\* listing the version-pattern root is denied; XILINX_VIVADO still finds it
C12_Witness ==
    /\ find_pc = "done"
    /\ search_env.which = "None"
    /\ search_env.common = "absent"
    /\ search_env.pattern = "denied"
    /\ search_env.environ = "valid"
    /\ find_result = Installation(EnvironExecutable)

-----------------------------------------------------------------------------
(* C21 *)

\* C21: with no variance model, whatever strobes and resets a register has
\* seen, its access-pending flag is 0 and its timing counter is 0; before the
\* first strobe or reset it holds its configured reset value, the
\* shadow-status register 1.
C21_NoPendingWithoutVariance ==
    (~variance_model.present /\ obs # 0) =>
        /\ ~access_pending
        /\ timing_counter = 0
        /\ (reset_from = "none" /\ ~last_written.valid) =>
              reg_value = IF regs[obs].name = ShadowStatusName THEN <<0, 1>>
                          ELSE ParseHexWord(regs[obs].value)

\* a write-only register that has been reset and then written
C21_Witness ==
    /\ ~variance_model.present
    /\ obs # 0 /\ regs[obs].rw = "wo"
    /\ reset_from = "idle"
    /\ last_written.valid
    /\ reset_n
    /\ ~access_pending /\ timing_counter = 0

-----------------------------------------------------------------------------
(* C22 *)

\* C22: no clock edge, strobe or reset changes the stored value, the
\* access-pending flag or the timing counter of a read-only register; the
\* write state machine exists exactly for read-write and write-only
\* registers.
C22_ReadOnlyFrame ==
    [][ /\ (obs # 0 /\ regs[obs].rw = "ro") =>
              /\ reg_value' = reg_value
              /\ access_pending' = access_pending
              /\ timing_counter' = timing_counter
        /\ obs # 0 => ((write_block # <<>>) <=> (regs[obs].rw \in {"rw", "wo"}))
      ]_vars

\* a read-only register after a reset, with a strobe at its own address
C22_Witness ==
    /\ obs # 0 /\ regs[obs].rw = "ro"
    /\ ~variance_model.present
    /\ reset_from = "idle"
    /\ reset_n
    /\ bus.wr_en /\ bus.addr = ParseOffset(regs[obs].offset)
    /\ reg_value = ParseHexWord(regs[obs].value)

-----------------------------------------------------------------------------
(* C23 *)

\* addresses read back to see the default branch
ProbeAddresses == {48, 52, 56, 60}

\* C23: the address-decode table is the 12 fixed entries at 0x00, 0x04, ..,
\* 0x2C in this order, then one entry per register in the order of the
\* register map, then the default branch, which occurs once and last; an
\* address with no entry reads as the all-zero default.
C23_TableOrder ==
    Done("first") =>
        LET t == frags["first"].read_logic
        IN  /\ Len(t) = 12 + Len(regs) + 1
            /\ \A k \in 1..12 :
                  t[k].kind = "case" /\ t[k].addr = FormatHex8(<<0, 4 * (k - 1)>>)
            /\ \A i \in 1..Len(regs) :
                  t[12 + i] = [kind |-> "case", addr |-> RegOffsetText(regs[i]),
                               src |-> <<regs[i].name, "_reg">>]
            /\ \A k \in 1..Len(t) : (t[k].kind = "default") <=> (k = Len(t))
            /\ \A a \in ProbeAddresses :
                  (\A k \in 1..(Len(t) - 1) : t[k].addr # FormatHex8(<<0, a>>)) =>
                      ReadSource(t, a) = <<"32'h0">>

\* a map that is not in address order: 0x34 listed before 0x30
C23_Witness ==
    /\ Done("first")
    /\ Len(regs) = 2
    /\ ParseOffset(regs[1].offset) = 52 /\ ParseOffset(regs[2].offset) = 48
    /\ frags["first"].read_logic[13].addr = RegOffsetText(regs[1])
    /\ ReadSource(frags["first"].read_logic, 56) = <<"32'h0">>

-----------------------------------------------------------------------------
(* C27 *)

\* C27: the interrupt state (pending, vector, priority) is always one of
\* (0, 0x00, 0x0), (1, 0x02, 0xF), (1, 0x01, 0x8), (1, 0x00, 0x4).
C27_StateIsOneOfFour ==
    <<interrupt_pending, interrupt_vector, interrupt_priority>> \in
        { <<FALSE, 0, 0>>, <<TRUE, 2, 15>>, <<TRUE, 1, 8>>, <<TRUE, 0, 4>> }

\* IDLE reached by an acknowledgment of a pending correctable-error interrupt
C27_Witness ==
    /\ irq_in.valid /\ irq_in.msi_ack
    /\ irq_prev = [pending |-> TRUE, vector |-> 1, priority |-> 8]
    /\ <<interrupt_pending, interrupt_vector, interrupt_priority>> = <<FALSE, 0, 0>>

-----------------------------------------------------------------------------
(* C28 *)

\* C28 as stated: while an interrupt stays pending without an acknowledgment
\* or reset, a clock edge does not replace its vector and priority by those
\* of a lower-priority trigger.
C28_PendingNotLowered ==
    (irq_in.valid /\ ~irq_in.msi_ack /\ irq_prev.pending) =>
        /\ interrupt_pending
        /\ interrupt_priority >= irq_prev.priority
        /\ interrupt_priority = irq_prev.priority =>
              interrupt_vector = irq_prev.vector

\* C28 as amended: priority orders only the triggers active at the same clock
\* edge.  At every edge out of reset with a trigger active the state becomes
\* that of the highest-priority active trigger, also when a higher-priority
\* interrupt was pending; the pending vector and priority are kept only over
\* edges with no trigger and no acknowledgment.
C28_LatestTriggerReplaces ==
    irq_in.valid =>
        /\ AnyTrigger(irq_in) =>
              <<interrupt_pending, interrupt_vector, interrupt_priority>> =
                  IF irq_in.uncorrectable_error THEN <<TRUE, 2, 15>>
                  ELSE IF irq_in.correctable_error THEN <<TRUE, 1, 8>>
                  ELSE <<TRUE, 0, 4>>
        /\ (~AnyTrigger(irq_in) /\ ~irq_in.msi_ack) => InterruptState = irq_prev

\* a bus write over a pending uncorrectable-error interrupt
C28_Witness ==
    /\ irq_in.valid
    /\ irq_in.bar_wr_en /\ ~irq_in.msi_ack
    /\ ~irq_in.uncorrectable_error /\ ~irq_in.correctable_error
    /\ irq_prev = [pending |-> TRUE, vector |-> 2, priority |-> 15]
    /\ InterruptState = [pending |-> TRUE, vector |-> 0, priority |-> 4]

-----------------------------------------------------------------------------
(* C29 *)

\* reset is deasserted and the last clock edge carried no strobe for the
\* observed register
QuietBus == reset_n /\ ~StrobeAccepted(bus, reset_n)

\* C29: with a variance model, if from some point on reset stays deasserted
\* and no strobe addresses the register, the register ends up IDLE for good;
\* out of reset PENDING is left only by loading the register; and the load
\* comes a full delay after the last strobe, every strobe during PENDING
\* having restarted the counter.
C29_PendingCommits ==
    /\ (<>[]QuietBus) => <>[](~access_pending)
    /\ [][(access_pending /\ ~access_pending' /\ reset_n') =>
              (commit_delay' # -1 /\ reg_value' = bus'.data)]_vars
    /\ [](commit_delay # -1 =>
              (commit_delay = since /\
                      commit_delay = (write_block[1].delay % 256) + 1))

\* a write committed a full delay after its strobe, the bus quiet since
C29_Witness ==
    /\ variance_model.present
    /\ ObservedWritable
    /\ last_written.valid
    /\ ~access_pending
    /\ commit_delay = base_delay(variance_model) + 1
    /\ QuietBus
    /\ reg_value = bus.data

-----------------------------------------------------------------------------
(* C30 *)

\* C30: the global write-pending indicator never stays asserted over more
\* than 16 clock edges: it is deasserted at the first edge that finds the
\* timer's low four bits at 0xF, strobe or not; it is asserted only at an
\* edge with a write strobe; and register_access_timer advances by one,
\* modulo 2^32, at every clock edge out of reset.
C30_PendingBounded ==
    /\ register_write_pending => (wp_age >= 0 /\ wp_age <= 15)
    /\ wp_window # -1 => wp_window <= 16
    /\ tim_in.valid =>
          /\ (tim_in.was_pending /\ tim_in.timer[2] % 16 = 15) =>
                ~register_write_pending
          /\ (tim_in.was_pending /\ ~register_write_pending) =>
                tim_in.timer[2] % 16 = 15
          /\ (~tim_in.was_pending /\ register_write_pending) => tim_in.bar_wr_en
          /\ register_access_timer =
                IF tim_in.timer = <<65535, 65535>> THEN <<0, 0>>
                ELSE IF tim_in.timer[2] = 65535 THEN <<tim_in.timer[1] + 1, 0>>
                ELSE <<tim_in.timer[1], tim_in.timer[2] + 1>>

\* the indicator falls at the edge that wraps the timer from 32'hFFFFFFFF to
\* 0, with the strobe still active
C30_Witness ==
    /\ tim_in.valid
    /\ tim_in.timer = <<65535, 65535>>
    /\ register_access_timer = <<0, 0>>
    /\ tim_in.was_pending /\ tim_in.bar_wr_en
    /\ ~register_write_pending

-----------------------------------------------------------------------------
(* C24 *)

\* C24: each of the primary, memory and auxiliary monitor counters advances
\* by one (modulo 2^16) on every rising edge of its own clock while reset is
\* deasserted, and the status word is {aux_clk_valid, mem_clk_valid, 1}.
C24_CounterPerDomain ==
    /\ clk_in.valid =>
          MonitorCounter(clk_in.domain) = (clk_in.before + 1) % 65536
    /\ clock_domain_status = <<aux_clk_valid, mem_clk_valid, TRUE>>

-----------------------------------------------------------------------------
(* C25 *)

\* C25: after reset, dst_valid is asserted only while dst_ready is asserted
\* and only once SYNC_STAGES dst_clk edges have passed since the source
\* domain latched the word on a src_valid/src_ready handshake.
C25_ValidAfterAllStages ==
    (cdc_was_reset /\ dst_valid) =>
        (dst_ready /\ latch_age >= SYNC_STAGES)

-----------------------------------------------------------------------------
(* C26 *)

\* the declarations of a run over rs that received the draws ds
DeclarationsWith(rs, vm, ds) ==
    LET Decls(i) == RegisterDeclarations(rs[i], vm, ds[i])
    IN  FlatMap(Decls, 1, Len(rs))

\* C26: parallel synthesis runs share no mutable state: a finished run's
\* declarations are those of a run alone on the same inputs with the same
\* random draws, and no run reads or advances state that another run also
\* uses.
C26_RunsShareNothing ==
    /\ \A r \in Runs :
          par_pc[r] > Len(regs) =>
              par_decl[r] = DeclarationsWith(regs, variance_model, par_draws[r])
    /\ Cardinality(rng_users) <= 1

-----------------------------------------------------------------------------
(* C31 *)

\* C31: the delay emitted for a writable register fits the 8-bit timing
\* counter (it is at most 255) for every jitter value of a variance model, so
\* the strobe edge seeds the counter with the emitted delay itself and not
\* with that delay truncated modulo 256.
C31_SeedFitsCounter ==
    (variance_model.present /\ ObservedWritable) =>
        /\ write_block[1].delay <= 255
        /\ (since = 0 /\ access_pending) => timing_counter = write_block[1].delay

-----------------------------------------------------------------------------
(* C32 *)

\* C32: dst_data does not change while the last synchronizer stage is set:
\* once the module has been reset, over every step that finds the stage set
\* and leaves it set, whichever clock edge it is, the word shown to the
\* destination stays what it was.
C32_DataStableWhileValid ==
    [][(cdc_was_reset /\ sync_reg[SYNC_STAGES] /\ sync_reg'[SYNC_STAGES]) =>
           dst_data' = dst_data]_vars

-----------------------------------------------------------------------------
(* C33 *)

\* C33: no latched word is lost: once the module has been reset, after the
\* source latches a word, valid_reg is not cleared and the word is not
\* replaced by a later handshake before dst_valid has been high for it
\* (dst_ready high while the last synchronizer stage is set), whatever the
\* consumer does with dst_ready.
C33_NoWordLost == cdc_was_reset => word_lost = "none"

====
